---- MODULE Spec2Model ----
(***************************************************************************)
(* Model of the OpenAPI preprocessing pipeline of                          *)
(* scripts/pre-processing/preprocess-schema.php (class OpenApiPreprocessor *)
(* and its driver).                                                        *)
(*                                                                         *)
(* The document is a PHP value as json_decode(..., true) yields it:        *)
(*   <<"null", <<>>>>, <<"bool", b>>, <<"num", n>>, <<"str", s>>,          *)
(*   <<"arr", e>>                                                          *)
(* A string s is a sequence of characters.  A fragment of a string that no *)
(* operation of the program looks into is written as one element of the    *)
(* sequence ("properties", a path such as "/projects/{projectId}"); in the *)
(* strings the program splits or matches (references, schema names, tags,  *)
(* descriptions) the characters it looks for ("/", " ", the letters of the *)
(* acronyms, "[", "]", ...) are always elements of their own.  The         *)
(* descriptions of the input documents are shorter than the widths the     *)
(* pipeline wraps at (80 and 113), in characters and so in elements;       *)
(* SpecDescription runs preprocessDescription character by character.      *)
(* A PHP array is the ordered sequence e of its <<key, value>> entries; a  *)
(* key is a string, and the keys "0", "1", ... are PHP's integer keys.     *)
(* PHP does not distinguish an empty list from an empty mapping, and       *)
(* neither does the model.                                                 *)
(*                                                                         *)
(* Input documents are well-shaped OpenAPI documents: a schema, a property *)
(* definition, an operation and a response are mappings, `$ref` is a       *)
(* string, `nullable` is a boolean, `required` of a schema is a list of    *)
(* names.                                                                  *)
(***************************************************************************)
EXTENDS Integers, Sequences, FiniteSets, TLC

VARIABLES
    input,           \* the decoded content of the input file (never changes)
    pc,              \* the driver's position: the next call of the main script
    schema,          \* OpenApiPreprocessor::$schema
    refUpdateCount,  \* OpenApiPreprocessor::$refUpdateCount
    output,          \* the file written by save(): a JSON value, or NoFile
    exitCode,        \* the exit code of the script, -1 while it runs
    description,     \* preprocessDescription called on its own: $description,
    wordwrapLength,  \*   $wordwrapLength,
    lines,           \*   and the array it returns, null before the call
    word,            \* the acronym substitutions applied on their own: the name,
    order,           \*   the order they are applied in,
    pascal           \*   and the name they give, <<>> before they are applied

run == <<input, pc, schema, refUpdateCount, output, exitCode>>
call == <<description, wordwrapLength, lines>>
table == <<word, order, pascal>>
vars == <<run, call, table>>

(***************************************************************************)
(* PHP values                                                              *)
(***************************************************************************)
Null == <<"null", <<>>>>
Bool(b) == <<"bool", b>>
Num(n) == <<"num", n>>
Str(s) == <<"str", s>>
Arr(e) == <<"arr", e>>

S(a) == Str(<<a>>)
K(a) == <<a>>
EmptyArr == Arr(<<>>)

IsArr(n) == n[1] = "arr"
IsStr(n) == n[1] = "str"
Ents(n) == IF IsArr(n) THEN n[2] ELSE <<>>
Count(n) == Len(Ents(n))

Digits == <<"0", "1", "2", "3", "4", "5", "6", "7", "8", "9">>
\* the integer key i of a PHP array
IdxKey(i) == <<Digits[i + 1]>>

IsDigit(c) == \E i \in DOMAIN Digits : Digits[i] = c

\* PHP stores a key that is the decimal text of an integer as that integer
IsIntKey(k) ==
    /\ k # <<>>
    /\ \A i \in DOMAIN k : IsDigit(k[i])
    /\ (Len(k) = 1 \/ k[1] # "0")

\* a mapping written with one-element keys, and a list
Obj(p) == Arr([i \in DOMAIN p |-> <<K(p[i][1]), p[i][2]>>])
List(s) == Arr([i \in DOMAIN s |-> <<IdxKey(i - 1), s[i]>>])

KeyIdx(n, k) ==
    LET hits == {i \in DOMAIN Ents(n) : Ents(n)[i][1] = k}
    IN  IF hits = {} THEN 0 ELSE CHOOSE i \in hits : TRUE

\* array_key_exists($k, $n)
Has(n, k) == KeyIdx(n, k) # 0
\* $n[$k] ?? null
Get(n, k) == IF Has(n, k) THEN Ents(n)[KeyIdx(n, k)][2] ELSE Null
\* isset($n[$k])
Isset(n, k) == Get(n, k) # Null

RECURSIVE GetPath(_, _)
\* $n[p1][p2]... ?? null
GetPath(n, p) ==
    IF p = <<>> THEN n ELSE GetPath(Get(n, Head(p)), Tail(p))

IssetPath(n, p) == GetPath(n, p) # Null

\* $n[$k] = $v; a null $n becomes an array
Set(n, k, v) ==
    IF Has(n, k)
    THEN Arr([Ents(n) EXCEPT ![KeyIdx(n, k)] = <<k, v>>])
    ELSE Arr(Append(Ents(n), <<k, v>>))

RECURSIVE SetPath(_, _, _)
\* $n[p1][p2]... = $v, creating the arrays on the way
SetPath(n, p, v) ==
    IF Len(p) = 1 THEN Set(n, p[1], v)
    ELSE Set(n, p[1], SetPath(Get(n, p[1]), Tail(p), v))

\* unset($n[$k])
Unset(n, k) ==
    LET keep(e) == e[1] # k
    IN  IF IsArr(n) THEN Arr(SelectSeq(Ents(n), keep)) ELSE n

RECURSIVE UnsetPath(_, _)
UnsetPath(n, p) ==
    IF ~IssetPath(n, p) THEN n
    ELSE IF Len(p) = 1 THEN Unset(n, p[1])
    ELSE Set(n, p[1], UnsetPath(Get(n, p[1]), Tail(p)))

\* $x = &$n[p1][p2]...: taking a reference creates what is missing, the
\* last element as null
RECURSIVE RefPath(_, _)
RefPath(n, p) ==
    IF p = <<>> THEN n
    ELSE IF Len(p) = 1
         THEN (IF Has(n, p[1]) THEN n ELSE Set(n, p[1], Null))
         ELSE Set(n, p[1], RefPath(Get(n, p[1]), Tail(p)))

\* PHP's conversion to bool: !empty($v)
Truthy(v) ==
    CASE v[1] = "null" -> FALSE
      [] v[1] = "bool" -> v[2]
      [] v[1] = "num" -> v[2] # 0
      [] v[1] = "str" -> v[2] # <<>> /\ v[2] # <<"0">>
      [] OTHER -> v[2] # <<>>

\* array_values(): the values under the keys 0, 1, ...
ArrayValues(n) == Arr([i \in DOMAIN Ents(n) |-> <<IdxKey(i - 1), Ents(n)[i][2]>>])

\* the keys of a PHP array are 0 .. count-1 in order (json_encode writes a list)
IsList(n) == \A i \in DOMAIN Ents(n) : Ents(n)[i][1] = IdxKey(i - 1)

\* foreach ($n as &$child) $child = f($child) over the entries of an array
MapArr(n, f(_)) == Arr([i \in DOMAIN Ents(n) |-> <<Ents(n)[i][1], f(Ents(n)[i][2])>>])

(***************************************************************************)
(* RefNormalizer                                                           *)
(***************************************************************************)
RECURSIVE fixAllRefsWithoutDescent(_)
\* fixAllRefsWithAllOf without the loop over the two new allOf members
fixAllRefsWithoutDescent(node) ==
    IF ~IsArr(node) THEN node
    ELSE
      LET notRef(e) == e[1] # K("$ref")
          extraKeys == SelectSeq(Ents(node), notRef)
          refPart == Arr(<< <<K("$ref"), Get(node, K("$ref"))>> >>)
      IN  IF Isset(node, K("$ref")) /\ extraKeys # <<>>
          THEN Obj(<< <<"allOf", List(<< refPart, Arr(extraKeys) >>)>> >>)
          ELSE MapArr(node, fixAllRefsWithoutDescent)

RECURSIVE fixAllRefsExtrasFirst(_)
\* fixAllRefsWithAllOf with the two allOf members in the other order
fixAllRefsExtrasFirst(node) ==
    IF ~IsArr(node) THEN node
    ELSE
      LET notRef(e) == e[1] # K("$ref")
          extraKeys == SelectSeq(Ents(node), notRef)
          refPart == Arr(<< <<K("$ref"), Get(node, K("$ref"))>> >>)
      IN  IF Isset(node, K("$ref")) /\ extraKeys # <<>>
          THEN Obj(<< <<"allOf", List(<< fixAllRefsExtrasFirst(Arr(extraKeys)),
                                          fixAllRefsExtrasFirst(refPart) >>)>> >>)
          ELSE MapArr(node, fixAllRefsExtrasFirst)

RECURSIVE fixAllRefsWithAllOf(_)
fixAllRefsWithAllOf(node) ==
    IF ~IsArr(node) THEN node
    ELSE
      LET notRef(e) == e[1] # K("$ref")
          extraKeys == SelectSeq(Ents(node), notRef)
          refPart == Arr(<< <<K("$ref"), Get(node, K("$ref"))>> >>)
      IN  IF Isset(node, K("$ref")) /\ extraKeys # <<>>
          THEN Obj(<< <<"allOf", List(<< fixAllRefsWithAllOf(refPart),
                                          fixAllRefsWithAllOf(Arr(extraKeys)) >>)>> >>)
          ELSE MapArr(node, fixAllRefsWithAllOf)

(***************************************************************************)
(* Strings                                                                 *)
(***************************************************************************)
RECURSIVE StrReplace(_, _, _)
\* str_replace($from, $to, $s): every occurrence, left to right
StrReplace(s, from, to) ==
    IF Len(s) < Len(from) THEN s
    ELSE IF SubSeq(s, 1, Len(from)) = from
         THEN to \o StrReplace(SubSeq(s, Len(from) + 1, Len(s)), from, to)
         ELSE <<Head(s)>> \o StrReplace(Tail(s), from, to)

\* end(explode('/', $s)), and basename($s) of a string that does not end in "/"
LastSegment(s) ==
    LET slashes == {i \in DOMAIN s : s[i] = "/"}
    IN  IF slashes = {} THEN s
        ELSE SubSeq(s, (CHOOSE i \in slashes : \A j \in slashes : j <= i) + 1, Len(s))

RECURSIVE Explode(_)
\* explode('/', $s)
Explode(s) ==
    LET slashes == {i \in DOMAIN s : s[i] = "/"}
        first == CHOOSE i \in slashes : \A j \in slashes : i <= j
    IN  IF slashes = {} THEN <<s>>
        ELSE <<SubSeq(s, 1, first - 1)>> \o Explode(SubSeq(s, first + 1, Len(s)))

SchemaRefPrefix == <<"#", "/", "components", "/", "schemas", "/">>
\* "#/components/schemas/{$name}"
SchemaRef(name) == Str(SchemaRefPrefix \o name)

SchemasPath == <<K("components"), K("schemas")>>

(***************************************************************************)
(* Guard check                                                             *)
(***************************************************************************)
\* $project = &$this->schema['components']['schemas']['Project'] creates the
\* entry when the document has none
checkProjectSubscriptionId(doc) ==
    RefPath(doc, SchemasPath \o <<K("Project")>>)

\* the test of a field id of Project.subscription, without the `properties` maps
checkSubscriptionIdWithoutProperties(doc) ==
    IssetPath(doc, SchemasPath \o <<K("Project"), K("subscription"), K("id")>>)

checkProjectSubscriptionIdThrows(doc) ==
    IssetPath(doc, SchemasPath \o <<K("Project"), K("properties"), K("subscription"),
                                    K("properties"), K("id")>>)

(***************************************************************************)
(* SchemaRenamer                                                           *)
(***************************************************************************)
\* the five str_replace() calls of toPascalCase, as a table
Substitutions ==
    << << <<"A", "P", "I">>, <<"A", "p", "i">> >>,
       << <<"S", "S", "H">>, <<"S", "s", "h">> >>,
       << <<"M", "F", "A">>, <<"M", "f", "a">> >>,
       << <<"T", "L", "S">>, <<"T", "l", "s">> >>,
       << <<"V", "P", "N">>, <<"V", "p", "n">> >> >>

\* toPascalCase without its last substitution
toPascalCaseWithoutVpn(name) ==
    LET n1 == StrReplace(name, <<"A", "P", "I">>, <<"A", "p", "i">>)
        n2 == StrReplace(n1, <<"S", "S", "H">>, <<"S", "s", "h">>)
        n3 == StrReplace(n2, <<"M", "F", "A">>, <<"M", "f", "a">>)
    IN  StrReplace(n3, <<"T", "L", "S">>, <<"T", "l", "s">>)

toPascalCase(name) ==
    LET n1 == StrReplace(name, <<"A", "P", "I">>, <<"A", "p", "i">>)
        n2 == StrReplace(n1, <<"S", "S", "H">>, <<"S", "s", "h">>)
        n3 == StrReplace(n2, <<"M", "F", "A">>, <<"M", "f", "a">>)
        n4 == StrReplace(n3, <<"T", "L", "S">>, <<"T", "l", "s">>)
    IN  StrReplace(n4, <<"V", "P", "N">>, <<"V", "p", "n">>)

RECURSIVE SumSeq(_)
SumSeq(s) == IF s = <<>> THEN 0 ELSE Head(s) + SumSeq(Tail(s))

RECURSIVE ApplyRenames(_, _)
\* the inner loop of updateRefsRecursively over $renameMap, on one `$ref`
\* value: [node |-> the value after the loop, n |-> the rewrites counted]
ApplyRenames(value, renames) ==
    IF renames = <<>> THEN [node |-> value, n |-> 0]
    ELSE LET old == Head(renames)[1]
             new == Head(renames)[2][2]
             hit == value = SchemaRef(old)
             rest == ApplyRenames(IF hit THEN SchemaRef(new) ELSE value, Tail(renames))
         IN  [node |-> rest.node, n |-> rest.n + (IF hit THEN 1 ELSE 0)]

RECURSIVE updateRefsRecursively(_, _)
\* [node |-> the node rewritten, n |-> the increments of $refUpdateCount]
updateRefsRecursively(node, renameMap) ==
    LET step(e) ==
            IF IsArr(e[2]) THEN updateRefsRecursively(e[2], renameMap)
            ELSE IF e[1] = K("$ref") /\ IsStr(e[2]) THEN ApplyRenames(e[2], Ents(renameMap))
            ELSE [node |-> e[2], n |-> 0]
        res == [i \in DOMAIN Ents(node) |-> step(Ents(node)[i])]
    IN  [node |-> Arr([i \in DOMAIN Ents(node) |-> <<Ents(node)[i][1], res[i].node>>]),
         n |-> SumSeq([i \in DOMAIN Ents(node) |-> res[i].n])]

RECURSIVE BuildNewSchemas(_, _)
\* $newSchemas[$pascalName] = $schemaDef over $schemas, in order
BuildNewSchemas(ents, acc) ==
    IF ents = <<>> THEN acc
    ELSE BuildNewSchemas(Tail(ents), Set(acc, toPascalCase(Head(ents)[1]), Head(ents)[2]))

\* $renameMap: the names $pascalName !== $schemaName holds of, old => new;
\* toPascalCase() returns a string, which is never identical to an integer key
BuildRenameMap(ents) ==
    LET changed(e) == IsIntKey(e[1]) \/ toPascalCase(e[1]) # e[1]
        sel == SelectSeq(ents, changed)
    IN  Arr([i \in DOMAIN sel |-> <<sel[i][1], Str(toPascalCase(sel[i][1]))>>])

\* [doc |-> the document after the pass, n |-> the increments of $refUpdateCount]
normalizeSchemaNamesToPascalCase(doc) ==
    IF ~IssetPath(doc, SchemasPath) THEN [doc |-> doc, n |-> 0]
    ELSE LET schemas == Ents(GetPath(doc, SchemasPath))
             renameMap == BuildRenameMap(schemas)
             doc1 == SetPath(doc, SchemasPath, BuildNewSchemas(schemas, EmptyArr))
             upd == updateRefsRecursively(doc1, renameMap)
         IN  IF Ents(renameMap) # <<>> THEN [doc |-> upd.node, n |-> upd.n]
             ELSE [doc |-> doc1, n |-> 0]

\* foreach ($n[$k] as &$v) $v = f($v): the array under $k is taken by reference
ForEachRef(n, k, f(_)) ==
    IF IsArr(Get(n, k)) THEN Set(n, k, MapArr(Get(n, k), f))
    ELSE RefPath(n, <<k>>)

\* foreach ($this->schema['paths'] as &$methods) foreach ($methods as &$operation)
ForEachOperation(doc, f(_)) ==
    LET methods(m) == IF IsArr(m) THEN MapArr(m, f) ELSE m
    IN  ForEachRef(doc, K("paths"), methods)

\* foreach ($this->schema['components']['schemas'] as &$schema)
ForEachSchema(doc, f(_)) ==
    LET comps == ForEachRef(Get(doc, K("components")), K("schemas"), f)
    IN  Set(doc, K("components"), comps)

fixTagsToPascalCase(doc) ==
    LET tag(t) == IF IsStr(t) THEN Str(toPascalCase(t[2])) ELSE t
        operation(op) ==
            IF ~Isset(op, K("tags")) \/ ~IsArr(Get(op, K("tags"))) THEN op
            ELSE Set(op, K("tags"), MapArr(Get(op, K("tags")), tag))
    IN  IF ~Isset(doc, K("paths")) THEN doc ELSE ForEachOperation(doc, operation)

(***************************************************************************)
(* NullabilityPropagator and RequiredCleaner                               *)
(***************************************************************************)
routeTypes == <<K("ProxyRoute"), K("RedirectRoute"), K("UpstreamRoute")>>

RoutePath(routeType) == SchemasPath \o <<routeType>>

RECURSIVE CollectProps(_, _)
\* the inner loop of collectAllRouteProperties: the first definition wins
CollectProps(props, all) ==
    IF props = <<>> THEN all
    ELSE CollectProps(Tail(props),
                      IF Isset(all, Head(props)[1]) THEN all
                      ELSE Set(all, Head(props)[1], Head(props)[2]))

RECURSIVE CollectRoutes(_, _, _)
CollectRoutes(doc, types, all) ==
    IF types = <<>> THEN all
    ELSE CollectRoutes(doc, Tail(types),
             IF ~IssetPath(doc, RoutePath(Head(types))) THEN all
             ELSE CollectProps(Ents(GetPath(doc, RoutePath(Head(types)) \o <<K("properties")>>)),
                               all))

\* collectAllRouteProperties returning after the first route type
collectFirstRouteProperties(doc) == CollectRoutes(doc, <<routeTypes[1]>>, EmptyArr)

collectAllRouteProperties(doc) == CollectRoutes(doc, routeTypes, EmptyArr)

createNullableProperty(originalProperty) ==
    IF Isset(originalProperty, K("$ref"))
    THEN Obj(<< <<"anyOf", List(<< Obj(<< <<"$ref", Get(originalProperty, K("$ref"))>> >>),
                                   Obj(<< <<"type", S("null")>> >>) >>)>>,
                <<"nullable", Bool(TRUE)>> >>)
    ELSE Set(originalProperty, K("nullable"), Bool(TRUE))

\* $x['nullable'] ?? false, as a condition
IsNullable(prop) == Truthy(Get(prop, K("nullable")))

\* the route types before routeType in group order that define $propName as
\* nullable
NullableSiblingsBefore(current, routeType, propName) ==
    LET index(type) == CHOOSE i \in DOMAIN routeTypes : routeTypes[i] = type
        sibling(other) ==
            /\ index(other) < index(routeType)
            /\ Isset(GetPath(current, RoutePath(other) \o <<K("properties")>>), propName)
            /\ IsNullable(GetPath(current, RoutePath(other) \o <<K("properties"), propName>>))
    IN  SelectSeq(routeTypes, sibling)

\* the other route types, in group order, that define $propName as nullable
NullableSiblings(current, routeType, propName) ==
    LET sibling(other) ==
            /\ other # routeType
            /\ Isset(GetPath(current, RoutePath(other) \o <<K("properties")>>), propName)
            /\ IsNullable(GetPath(current, RoutePath(other) \o <<K("properties"), propName>>))
    IN  SelectSeq(routeTypes, sibling)

\* the body of the loop without the branch that forces `id` to be nullable
ProcessRoutePropertyUnforced(doc, routeType, existingProperties, propName, propDefinition) ==
    LET propPath == RoutePath(routeType) \o <<K("properties"), propName>>
        wasNullable == IsNullable(Get(existingProperties, propName))
    IN  IF ~Isset(existingProperties, propName)
        THEN SetPath(doc, propPath, createNullableProperty(propDefinition))
        ELSE IF NullableSiblings(doc, routeType, propName) # <<>> /\ ~wasNullable
             THEN SetPath(doc, propPath \o <<K("nullable")>>, Bool(TRUE))
             ELSE doc

\* the body of the loop over $allProperties for one property of one route
ProcessRouteProperty(doc, routeType, existingProperties, propName, propDefinition) ==
    LET propPath == RoutePath(routeType) \o <<K("properties"), propName>>
        nullablePath == propPath \o <<K("nullable")>>
        wasNullable == IsNullable(Get(existingProperties, propName))
        forced == IF propName = K("id") /\ ~wasNullable
                  THEN SetPath(doc, nullablePath, Bool(TRUE)) ELSE doc
    IN  IF ~Isset(existingProperties, propName)
        THEN SetPath(doc, propPath, createNullableProperty(propDefinition))
        ELSE IF NullableSiblings(forced, routeType, propName) # <<>> /\ ~wasNullable
             THEN SetPath(forced, nullablePath, Bool(TRUE))
             ELSE forced

\* The loops below thread the document through their iterations; each
\* iteration's document is a PHP array, and the test IsArr(next) has it
\* evaluated before the next iteration starts.
RECURSIVE ProcessRouteProperties(_, _, _, _)
ProcessRouteProperties(doc, routeType, existingProperties, all) ==
    IF all = <<>> THEN doc
    ELSE LET next == ProcessRouteProperty(doc, routeType, existingProperties,
                                          Head(all)[1], Head(all)[2])
         IN  IF IsArr(next)
             THEN ProcessRouteProperties(next, routeType, existingProperties, Tail(all))
             ELSE next

RECURSIVE ProcessRoutes(_, _, _)
ProcessRoutes(doc, types, allProperties) ==
    IF types = <<>> THEN doc
    ELSE LET next == IF ~IssetPath(doc, RoutePath(Head(types))) THEN doc
                     ELSE ProcessRouteProperties(doc, Head(types),
                              GetPath(doc, RoutePath(Head(types)) \o <<K("properties")>>),
                              Ents(allProperties))
         IN  IF IsArr(next) THEN ProcessRoutes(next, Tail(types), allProperties) ELSE next

makePropertiesNullable(doc) == ProcessRoutes(doc, routeTypes, collectAllRouteProperties(doc))

\* the callback without the test of `nullable`
KeepRequiredDefined(properties, propName) ==
    Truthy(IF IsStr(propName) THEN Get(properties, propName[2]) ELSE Null)

\* the callback without the test of $prop
KeepRequiredNotNullable(properties, propName) ==
    ~IsNullable(IF IsStr(propName) THEN Get(properties, propName[2]) ELSE Null)

\* the array_filter callback of cleanRequiredProperties
KeepRequired(properties, propName) ==
    LET prop == IF IsStr(propName) THEN Get(properties, propName[2]) ELSE Null
    IN  Truthy(prop) /\ ~IsNullable(prop)

CleanRoute(route) ==
    LET required == Get(route, K("required"))
        properties == Get(route, K("properties"))
        keep(e) == KeepRequired(properties, e[2])
        cleanRequired == Arr(SelectSeq(Ents(required), keep))
    IN  IF Count(required) - Count(cleanRequired) > 0
        THEN Set(route, K("required"), ArrayValues(cleanRequired))
        ELSE route

RECURSIVE CleanRoutes(_, _)
CleanRoutes(doc, types) ==
    IF types = <<>> THEN doc
    ELSE LET next == IF ~IssetPath(doc, RoutePath(Head(types)) \o <<K("required")>>) THEN doc
                     ELSE SetPath(doc, RoutePath(Head(types)),
                                  CleanRoute(GetPath(doc, RoutePath(Head(types)))))
         IN  IF IsArr(next) THEN CleanRoutes(next, Tail(types)) ELSE next

cleanRequiredProperties(doc) == CleanRoutes(doc, routeTypes)

(***************************************************************************)
(* Date-time flagging                                                      *)
(***************************************************************************)
MarkProperty(propName, propDefinition) ==
    IF Get(propDefinition, K("type")) = S("string")
       /\ Get(propDefinition, K("format")) = S("date-time")
    THEN Set(propDefinition, K("x-isDateTime"), Bool(TRUE))
    ELSE IF ~Has(propDefinition, K("$ref")) /\ propName # K("_links")
         THEN Set(propDefinition, K("x-isDateTime"), Bool(FALSE))
         ELSE propDefinition

markDateTimeProperties(doc) ==
    LET props(p) == IF IsArr(p)
                    THEN Arr([i \in DOMAIN Ents(p) |->
                              <<Ents(p)[i][1], MarkProperty(Ents(p)[i][1], Ents(p)[i][2])>>])
                    ELSE p
        mark(sch) == IF Has(sch, K("properties"))
                     THEN Set(sch, K("properties"), props(Get(sch, K("properties"))))
                     ELSE sch
    IN  ForEachSchema(doc, mark)

\* array_key_exists() on a value that is no array raises a TypeError, which
\* the driver's catch (Exception) does not catch
markDateTimePropertiesThrows(doc) ==
    \E i \in DOMAIN Ents(GetPath(doc, SchemasPath)) :
        LET sch == Ents(GetPath(doc, SchemasPath))[i][2]
            props == Ents(Get(sch, K("properties")))
        IN  \/ ~IsArr(sch)
            \/ \E j \in DOMAIN props :
                   /\ ~IsArr(props[j][2])
                   /\ ~(Get(props[j][2], K("type")) = S("string")
                        /\ Get(props[j][2], K("format")) = S("date-time"))

(***************************************************************************)
(* PathPatcher                                                             *)
(***************************************************************************)
RECURSIVE Words(_)
\* a text: its words with one space between them
Words(w) ==
    IF Len(w) <= 1 THEN w ELSE <<Head(w), " ">> \o Words(Tail(w))

Text(w) == Str(Words(w))

OrgAddonsPath == <<K("paths"), K("/organizations/{organization_id}/addons")>>

ProblemResponse(text) ==
    Obj(<< <<"description", S(text)>>,
           <<"content", Obj(<< <<"application/problem+json",
               Obj(<< <<"schema", Obj(<< <<"$ref", SchemaRef(<<"Error">>)>> >>)>> >>)>> >>)>> >>)

OrgAddonsPatchOperation ==
    Obj(<<
      <<"summary", S("Update organization add-ons")>>,
      <<"description", Text(<<"Updates", "the", "add-ons", "configuration", "for", "an",
                              "organization.">>)>>,
      <<"operationId", S("update-org-addons")>>,
      <<"tags", List(<< S("Add-ons") >>)>>,
      <<"parameters", List(<< Obj(<< <<"$ref",
            Str(<<"#", "/", "components", "/", "parameters", "/", "OrganizationIDName">>)>> >>) >>)>>,
      <<"requestBody", Obj(<<
          <<"required", Bool(TRUE)>>,
          <<"content", Obj(<< <<"application/json", Obj(<< <<"schema", Obj(<<
              <<"type", S("object")>>,
              <<"properties", Obj(<<
                  <<"user_management", Obj(<<
                      <<"type", S("string")>>,
                      <<"description", Text(<<"The", "user", "management", "level", "to", "apply.">>)>>,
                      <<"enum", List(<< S("standard"), S("enhanced") >>)>>,
                      <<"example", S("standard")>> >>)>>,
                  <<"support_level", Obj(<<
                      <<"type", S("string")>>,
                      <<"description", Text(<<"The", "support", "level", "to", "apply.">>)>>,
                      <<"enum", List(<< S("basic"), S("premium") >>)>>,
                      <<"example", S("basic")>> >>)>> >>)>>,
              <<"additionalProperties", Bool(FALSE)>>,
              <<"minProperties", Num(1)>> >>)>> >>)>> >>)>> >>)>>,
      <<"responses", Arr(<<
          <<<<"2", "0", "0">>, Obj(<<
              <<"description", S("Add-ons updated successfully")>>,
              <<"content", Obj(<< <<"application/json", Obj(<< <<"schema",
                  Obj(<< <<"$ref", SchemaRef(<<"OrganizationAddonsObject">>)>> >>)>> >>)>> >>)>> >>)>>,
          <<<<"4", "0", "0">>, ProblemResponse("Bad Request")>>,
          <<<<"4", "0", "3">>, ProblemResponse("Forbidden")>>,
          <<<<"4", "0", "4">>, ProblemResponse("Not Found")>> >>)>>,
      <<"x-vendor", S("upsun")>> >>)

\* the pass leaving a document that has the path as it is
addOrgAddonsPatchIfAbsent(doc) ==
    IF IssetPath(doc, OrgAddonsPath) THEN doc
    ELSE SetPath(doc, OrgAddonsPath \o <<K("patch")>>, OrgAddonsPatchOperation)

\* the PATCH operation is assigned whether or not the path or the verb exists
addOrgAddonsPatch(doc) ==
    LET doc1 == IF ~IssetPath(doc, OrgAddonsPath) THEN SetPath(doc, OrgAddonsPath, EmptyArr)
                ELSE doc
    IN  SetPath(doc1, OrgAddonsPath \o <<K("patch")>>, OrgAddonsPatchOperation)

ProjectDeletePath == <<K("paths"), K("/projects/{projectId}"), K("delete")>>

removeProjectDeletePath(doc) == UnsetPath(doc, ProjectDeletePath)

ResourcePath ==
    <<K("paths"), K("/projects/{projectId}/environments/{environmentId}/deployments/next")>>

PathParameter(name) ==
    Obj(<< <<"name", S(name)>>, <<"in", S("path")>>, <<"required", Bool(TRUE)>>,
           <<"schema", Obj(<< <<"type", S("string")>> >>)>> >>)

ResourceKind(kind, instances) ==
    Obj(<<
      <<"type", S("object")>>,
      <<"additionalProperties", Obj(<<
          <<"type", S("object")>>,
          <<"properties", Obj(<<
              <<"resources", Obj(<< <<"$ref", SchemaRef(<<"ResourceConfig">>)>> >>)>>,
              <<"instance_count", Obj(<<
                  <<"type", S("integer")>>,
                  <<"nullable", Bool(TRUE)>>,
                  <<"description", Text(<<"Number", "of", "instances", "to", "run", "for",
                                          "the", kind>>)>>,
                  <<"example", Num(instances)>> >>)>>,
              <<"disk", Obj(<<
                  <<"type", S("integer")>>,
                  <<"nullable", Bool(TRUE)>>,
                  <<"title", S("Disk Size")>>,
                  <<"description", Text(<<"Size", "of", "the", "disk", "in", "Bytes", "for",
                                          "the", kind>>)>>,
                  <<"example", Num(1024)>> >>)>> >>)>> >>)>> >>)

ResourcePatchOperation ==
    Obj(<<
      <<"summary", S("Update the next deployment")>>,
      <<"description", Text(<<"Update", "resources", "for", "either", "webapps,", "services,",
                              "or", "workers", "in", "the", "next", "deployment.">>)>>,
      <<"parameters", List(<< PathParameter("projectId"), PathParameter("environmentId") >>)>>,
      <<"requestBody", Obj(<<
          <<"required", Bool(TRUE)>>,
          <<"content", Obj(<< <<"application/json", Obj(<< <<"schema", Obj(<<
              <<"type", S("object")>>,
              <<"properties", Obj(<<
                  <<"webapps", ResourceKind("webapp", 2)>>,
                  <<"services", ResourceKind("service", 1)>>,
                  <<"workers", ResourceKind("worker", 1)>> >>)>> >>)>> >>)>> >>)>> >>)>>,
      <<"responses", Obj(<<
          <<"default", Obj(<<
              <<"description", S("Deployment successfully updated")>>,
              <<"content", Obj(<< <<"application/json", Obj(<< <<"schema",
                  Obj(<< <<"$ref", SchemaRef(<<"AcceptedResponse">>)>> >>)>> >>)>> >>)>> >>)>> >>)>>,
      <<"tags", List(<< S("Deployment") >>)>>,
      <<"operationId", S("update-projects-environments-deployments-next")>> >>)

ResourceConfigSchema ==
    Obj(<<
      <<"type", S("object")>>,
      <<"properties", Obj(<<
          <<"profile_size", Obj(<<
              <<"type", S("string")>>,
              <<"nullable", Bool(TRUE)>>,
              <<"description", Text(<<"Profile", "size", "(e.g.", "\"0.5\",", "\"1\",",
                                      "\"2\")">>)>>,
              <<"example", S("2")>> >>)>> >>)>> >>)

addResourcePath(doc) ==
    IF IssetPath(doc, ResourcePath) THEN doc
    ELSE SetPath(SetPath(doc, ResourcePath \o <<K("patch")>>, ResourcePatchOperation),
                 SchemasPath \o <<K("ResourceConfig")>>, ResourceConfigSchema)

(***************************************************************************)
(* Clean-up passes                                                         *)
(***************************************************************************)
fixEmptyParameters(doc) ==
    LET operation(op) ==
            IF Isset(op, K("parameters")) /\ Get(op, K("parameters")) = EmptyArr
            THEN Unset(op, K("parameters")) ELSE op
    IN  ForEachOperation(doc, operation)

\* foreach (<a copy or a temporary> as &$v) $v = f($v): the loop writes to the
\* copy, and $n keeps its value
ForEachCopy(n, f(_)) == n

AcceptedRef == Obj(<< <<"$ref", SchemaRef(<<"AcceptedResponse">>)>> >>)

JsonSchemaPath == <<K("content"), K("application/json"), K("schema")>>

\* the body of the loop of replaceEmptyRefResponsesWithAccepted over $responses
ReplaceEmptyRefResponse(doc, response) ==
    LET schemaRef == GetPath(response, JsonSchemaPath \o <<K("$ref")>>)
        schemaDef == GetPath(doc, SchemasPath \o <<LastSegment(schemaRef[2])>>)
        isEmpty == \/ schemaDef = Null
                   \/ /\ ~Truthy(Get(schemaDef, K("properties")))
                      /\ ~Truthy(Get(schemaDef, K("oneOf")))
                      /\ ~Truthy(Get(schemaDef, K("allOf")))
                      /\ ~Truthy(Get(schemaDef, K("anyOf")))
    IN  IF ~Truthy(schemaRef) THEN response
        ELSE IF isEmpty THEN SetPath(response, JsonSchemaPath, AcceptedRef)
        ELSE response

\* $responses = $operation['responses'] is a copy, and the loop writes to it
replaceEmptyRefResponsesWithAccepted(doc) ==
    LET replace(response) == ReplaceEmptyRefResponse(doc, response)
        operation(op) ==
            IF ~IsArr(Get(op, K("responses"))) THEN op
            ELSE Set(op, K("responses"), ForEachCopy(Get(op, K("responses")), replace))
    IN  ForEachOperation(doc, operation)

\* foreach ($schema['properties'] ?? [] as &$prop) runs over a temporary
fixNullableRequired(doc) ==
    LET property(prop) ==
            IF IsNullable(prop) /\ Isset(prop, K("required"))
            THEN Unset(prop, K("required")) ELSE prop
        sch(sc) == IF Has(sc, K("properties"))
                   THEN Set(sc, K("properties"), ForEachCopy(Get(sc, K("properties")), property))
                   ELSE sc
    IN  ForEachSchema(doc, sch)

\* $n[$to] = $n[$from]; unset($n[$from]) when isset($n[$from])
RenameKey(n, from, to) ==
    IF Isset(n, from) THEN Unset(Set(n, to, Get(n, from)), from) ELSE n

renameXInternal(doc) ==
    LET rename(n) == RenameKey(n, K("x-internal"), K("x-internal-doc"))
    IN  ForEachSchema(ForEachOperation(doc, rename), rename)

renameDeprecated(doc) ==
    LET operation(op) == RenameKey(op, K("deprecated"), K("x-deprecated"))
        property(prop) ==
            IF Truthy(Get(prop, K("deprecated")))
            THEN Unset(Set(prop, K("x-deprecated"), Get(prop, K("deprecated"))), K("deprecated"))
            ELSE prop
        sch(sc) == IF Has(sc, K("properties"))
                   THEN Set(sc, K("properties"), ForEachCopy(Get(sc, K("properties")), property))
                   ELSE sc
    IN  ForEachSchema(ForEachOperation(doc, operation), sch)

(***************************************************************************)
(* ReturnTypeAnnotator                                                     *)
(***************************************************************************)
IsSpace(c) == c \in {" ", "\n", "\t", "\r"}

RECURSIVE ReplaceSpaceRuns(_, _)
\* preg_replace('/\s+/', $with, $s)
ReplaceSpaceRuns(s, with) ==
    IF s = <<>> THEN <<>>
    ELSE IF IsSpace(Head(s))
         THEN (IF Len(s) > 1 /\ IsSpace(s[2]) THEN ReplaceSpaceRuns(Tail(s), with)
               ELSE with \o ReplaceSpaceRuns(Tail(s), with))
         ELSE <<Head(s)>> \o ReplaceSpaceRuns(Tail(s), with)

DigitValue(c) == (CHOOSE i \in DOMAIN Digits : Digits[i] = c) - 1

RECURSIVE Decimal(_)
Decimal(s) == IF s = <<>> THEN 0 ELSE 10 * Decimal(SubSeq(s, 1, Len(s) - 1)) + DigitValue(s[Len(s)])

\* is_numeric($statusCode) of a response key
IsNumeric(s) == s # <<>> /\ \A i \in DOMAIN s : IsDigit(s[i])

\* the responses addXReturn looks at: 2xx, or the key 'default'
IsSuccessCode(statusCode) ==
    \/ IsNumeric(statusCode) /\ Decimal(statusCode) >= 200 /\ Decimal(statusCode) <= 299
    \/ statusCode = K("default")

ModelPrefix == "\\Upsun\\Model\\"

\* '\\Upsun\\Model\\' . end(explode('/', $ref))
ModelClass(ref) == <<ModelPrefix>> \o LastSegment(ref[2])

RECURSIVE resolveRefParts(_, _)
resolveRefParts(current, parts) ==
    IF parts = <<>> THEN current
    ELSE IF Head(parts) = <<"#">> \/ Head(parts) = <<>>
         THEN resolveRefParts(current, Tail(parts))
         ELSE IF ~Isset(current, Head(parts)) THEN Null
              ELSE resolveRefParts(Get(current, Head(parts)), Tail(parts))

resolveRef(spec, ref) == resolveRefParts(spec, Explode(ref[2]))

Refs(types, phpdoc) == [refs |-> types, phpdoc |-> phpdoc]

ReturnDoc(v) == Obj(<< <<"return", v>> >>)

\* the `$ref` branch with a reference that does not resolve giving 'void'
CollectRefVoidWhenUnresolved(sch, spec) ==
    LET resolved == resolveRef(spec, Get(sch, K("$ref")))
        items == ModelClass(GetPath(resolved, <<K("items"), K("$ref")>>)) \o <<"[]">>
        class == ModelClass(Get(sch, K("$ref")))
    IN  IF ~Truthy(resolved) THEN Refs(<<S("void")>>, EmptyArr)
        ELSE IF Get(resolved, K("type")) = S("array")
                /\ IssetPath(resolved, <<K("items"), K("$ref")>>)
             THEN Refs(<<Str(items)>>, ReturnDoc(Str(items)))
             ELSE Refs(<<Str(class)>>, ReturnDoc(Str(class)))

\* the `$ref` branch naming the model of the reference whatever it resolves to
CollectRefWithoutItems(sch, spec) ==
    LET class == ModelClass(Get(sch, K("$ref")))
    IN  Refs(<<Str(class)>>, ReturnDoc(Str(class)))

\* the `$ref` branch, the 'array' case and the 'object' case of collectMainRefs
CollectRef(sch, spec) ==
    LET resolved == resolveRef(spec, Get(sch, K("$ref")))
        items == ModelClass(GetPath(resolved, <<K("items"), K("$ref")>>)) \o <<"[]">>
        class == ModelClass(Get(sch, K("$ref")))
    IN  IF Truthy(resolved) /\ Get(resolved, K("type")) = S("array")
           /\ IssetPath(resolved, <<K("items"), K("$ref")>>)
        THEN Refs(<<Str(items)>>, ReturnDoc(Str(items)))
        ELSE Refs(<<Str(class)>>, ReturnDoc(Str(class)))

CollectArray(sch) ==
    LET class == ModelClass(GetPath(sch, <<K("items"), K("$ref")>>)) \o <<"[]">>
        type == GetPath(sch, <<K("items"), K("type")>>)[2] \o <<"[]">>
    IN  IF IssetPath(sch, <<K("items"), K("$ref")>>)
        THEN Refs(<<Str(class)>>, ReturnDoc(Str(class)))
        ELSE IF IssetPath(sch, <<K("items"), K("type")>>)
             THEN Refs(<<Str(type)>>, ReturnDoc(Str(type)))
             ELSE Refs(<<>>, EmptyArr)

CollectObject(sch) ==
    LET additionalProps == Get(sch, K("additionalProperties"))
        class == <<"array<string,">> \o ModelClass(Get(additionalProps, K("$ref"))) \o <<">">>
        type == <<"array<string,">> \o Get(additionalProps, K("type"))[2] \o <<">">>
    IN  IF Isset(sch, K("additionalProperties"))
        THEN IF Isset(additionalProps, K("$ref"))
             THEN Refs(<<Str(class)>>, ReturnDoc(Str(class)))
             ELSE IF Get(additionalProps, K("type")) = S("object")
                     /\ Isset(additionalProps, K("properties"))
                  THEN Refs(<<>>, ReturnDoc(Bool(TRUE)))
                  ELSE IF Isset(additionalProps, K("type"))
                       THEN Refs(<<Str(type)>>, ReturnDoc(Str(type)))
                       ELSE Refs(<<>>, EmptyArr)
        ELSE Refs(<<S("object")>>, ReturnDoc(S("object")))

collectMainRefs(sch, spec) ==
    LET type == Get(sch, K("type"))
    IN  IF Isset(sch, K("$ref")) THEN CollectRef(sch, spec)
        ELSE IF type = S("array") THEN CollectArray(sch)
        ELSE IF type = S("object") THEN CollectObject(sch)
        ELSE IF type \in {S("boolean"), S("string"), S("integer")}
             THEN Refs(<<type>>, ReturnDoc(Bool(FALSE)))
        ELSE IF type = S("number") THEN Refs(<<S("float")>>, ReturnDoc(Bool(FALSE)))
        ELSE Refs(<<>>, EmptyArr)

\* the schema addXReturn takes from one response; null when it has none
ResponseSchema(resp) ==
    LET content == Get(resp, K("content"))
    IN  IF IssetPath(content, <<K("application/json"), K("schema")>>)
        THEN GetPath(content, <<K("application/json"), K("schema")>>)
        ELSE IF IssetPath(content, <<K("application/problem+json"), K("schema")>>)
             THEN GetPath(content, <<K("application/problem+json"), K("schema")>>)
             ELSE IF Has(content, K("application/pdf"))
                  THEN Obj(<< <<"type", S("string")>>, <<"format", S("binary")>> >>)
                  ELSE Null

\* the body of the loop without the branch for properties.items.$ref
ResponseRefsWithoutEnvelope(resp, spec) ==
    LET sch == ResponseSchema(resp)
    IN  IF Truthy(sch) /\ IsArr(sch)
        THEN [refs |-> collectMainRefs(sch, spec).refs,
              phpdoc |-> collectMainRefs(sch, spec).phpdoc, hasSchema |-> TRUE]
        ELSE [refs |-> IF Has(Get(resp, K("content")), K("application/pdf"))
                       THEN <<S("string")>> ELSE <<S("void")>>,
              phpdoc |-> Null, hasSchema |-> FALSE]

\* the body of the loop over the responses: [refs, phpdoc, hasSchema], hasSchema
\* telling whether $phpDoc is assigned
ResponseRefs(resp, spec) ==
    LET sch == ResponseSchema(resp)
        envelope == ModelClass(GetPath(sch, <<K("properties"), K("items"), K("$ref")>>)) \o <<"[]">>
        refs == IF Get(sch, K("type")) = S("object")
                   /\ IssetPath(sch, <<K("properties"), K("items"), K("$ref")>>)
                THEN Refs(<<Str(envelope)>>, Null)
                ELSE collectMainRefs(sch, spec)
    IN  IF Truthy(sch) /\ IsArr(sch)
        THEN [refs |-> refs.refs, phpdoc |-> refs.phpdoc, hasSchema |-> TRUE]
        ELSE [refs |-> IF Has(Get(resp, K("content")), K("application/pdf"))
                       THEN <<S("string")>> ELSE <<S("void")>>,
              phpdoc |-> Null, hasSchema |-> FALSE]

RECURSIVE CollectResponses(_, _, _)
\* the loop over $operation['responses']: [returnTypes, phpDoc]
CollectResponses(ents, spec, acc) ==
    IF ents = <<>> THEN acc
    ELSE LET r == ResponseRefs(Head(ents)[2], spec)
         IN  CollectResponses(Tail(ents), spec,
                 IF ~IsSuccessCode(Head(ents)[1]) THEN acc
                 ELSE [returnTypes |-> acc.returnTypes \o r.refs,
                       phpDoc |-> IF r.hasSchema THEN r.phpdoc ELSE acc.phpDoc])

RECURSIVE Unique(_)
\* array_values(array_unique($s))
Unique(s) ==
    IF s = <<>> THEN <<>>
    ELSE LET init == Unique(SubSeq(s, 1, Len(s) - 1))
         IN  IF \E i \in DOMAIN init : init[i] = s[Len(s)] THEN init
             ELSE Append(init, s[Len(s)])

RECURSIVE Implode(_, _)
\* implode($glue, $strings)
Implode(glue, strings) ==
    IF strings = <<>> THEN <<>>
    ELSE IF Len(strings) = 1 THEN strings[1][2]
    ELSE strings[1][2] \o <<glue>> \o Implode(glue, Tail(strings))

\* str_ends_with($t, '[]')
EndsWithBrackets(t) == t[2] # <<>> /\ t[2][Len(t[2])] = "[]"

\* str_contains($t, 'array<')
ContainsArrayOf(t) == \E i \in DOMAIN t[2] : t[2][i] = "array<string,"

\* the conversion without the test count($returnTypes) > 1
VoidAlwaysNull(returnTypes) ==
    [i \in DOMAIN returnTypes |->
        IF returnTypes[i] = S("void") THEN S("null") ELSE returnTypes[i]]

\* convert void|Error to null|Error
VoidToNull(returnTypes) ==
    IF (\E i \in DOMAIN returnTypes : returnTypes[i] = S("void")) /\ Len(returnTypes) > 1
    THEN [i \in DOMAIN returnTypes |->
             IF returnTypes[i] = S("void") THEN S("null") ELSE returnTypes[i]]
    ELSE returnTypes

\* the loop that determines whether the operation has a real return type
HasReturn(operation) ==
    \E i \in DOMAIN Ents(Get(operation, K("responses"))) :
        LET e == Ents(Get(operation, K("responses")))[i]
        IN  IsSuccessCode(e[1]) /\ Truthy(Get(e[2], K("content")))

WithPropertyId(operation) ==
    IF Truthy(Get(operation, K("operationId")))
    THEN Set(operation, K("x-property-id-kebab"), Get(operation, K("operationId")))
    ELSE operation

WithTagId(operation) ==
    IF Truthy(Get(operation, K("tags")))
    THEN Set(operation, K("x-tag-id-kebab"),
             Str(ReplaceSpaceRuns(GetPath(operation, <<K("tags"), IdxKey(0)>>)[2], <<"-">>)))
    ELSE operation

\* [returnTypes, phpDoc] after the loop over the responses
CollectedResponses(operation, spec) ==
    IF IsArr(Get(operation, K("responses")))
    THEN CollectResponses(Ents(Get(operation, K("responses"))), spec,
                          [returnTypes |-> <<>>, phpDoc |-> EmptyArr])
    ELSE [returnTypes |-> <<>>, phpDoc |-> EmptyArr]

\* Model[] becomes array in the union type
ReturnTypeUnion(returnTypes) ==
    Str(Implode("|", Unique([i \in DOMAIN returnTypes |->
            IF EndsWithBrackets(returnTypes[i]) THEN S("array") ELSE returnTypes[i]])))

WithUnion(operation, returnTypeUnion) ==
    IF Truthy(returnTypeUnion) /\ returnTypeUnion # S("object")
    THEN Set(operation, K("x-return-types-union"), returnTypeUnion)
    ELSE operation

DisplayReturn(returnTypes) ==
    \E i \in DOMAIN returnTypes :
        EndsWithBrackets(returnTypes[i]) \/ ContainsArrayOf(returnTypes[i])

\* the x-return-* keys, in the order the code first assigns them
WithReturnTypes(operation, returnTypes, phpDoc) ==
    Set(Set(WithUnion(Set(Set(operation,
                              K("x-return-types-displayReturn"), Bool(DisplayReturn(returnTypes))),
                          K("x-return-types"), List(Unique(returnTypes))),
                      ReturnTypeUnion(returnTypes)),
            K("x-phpdoc"), phpDoc),
        K("x-returnable"), Bool(HasReturn(operation)))

AnnotateWith(operation, collected) ==
    WithReturnTypes(operation, VoidToNull(collected.returnTypes), collected.phpDoc)

\* the body of addXReturn for one operation
AnnotateOperation(operation, spec) ==
    AnnotateWith(WithTagId(WithPropertyId(operation)), CollectedResponses(operation, spec))

\* the loop that removes `default` beside `$ref` runs over the copy $properties
DropRequestBodyDefaults(operation) ==
    LET path == <<K("requestBody"), K("content"), K("application/json"), K("schema"),
                  K("properties")>>
        property(prop) ==
            IF Isset(prop, K("$ref")) /\ Has(prop, K("default"))
            THEN Unset(prop, K("default")) ELSE prop
    IN  IF IssetPath(operation, path)
        THEN SetPath(operation, path, ForEachCopy(GetPath(operation, path), property))
        ELSE operation

addXReturn(doc) ==
    LET methods(m) ==
            Arr([i \in DOMAIN Ents(m) |->
                 <<Ents(m)[i][1],
                   IF ~IsArr(Ents(m)[i][2]) \/ Ents(m)[i][1] = K("parameters")
                   THEN Ents(m)[i][2]
                   ELSE AnnotateOperation(DropRequestBodyDefaults(Ents(m)[i][2]), doc)>>])
        each(m) == IF IsArr(m) THEN methods(m) ELSE m
    IN  ForEachRef(doc, K("paths"), each)

(***************************************************************************)
(* DescriptionFormatter                                                    *)
(***************************************************************************)
\* the first index >= i of s holding c, or 0
IndexFrom(s, c, i) ==
    LET hits == {j \in DOMAIN s : j >= i /\ s[j] = c}
    IN  IF hits = {} THEN 0 ELSE CHOOSE j \in hits : \A h \in hits : j <= h

\* where the text of a link that starts at s[i] = "[" ends: the index of its "]"
LinkTextEnd(s, i) == IndexFrom(s, "]", i + 1)

\* where the link that starts at s[i] ends: the index of its ")"
LinkEnd(s, i) == IndexFrom(s, ")", LinkTextEnd(s, i) + 3)

\* /\[([^\]]+)\]\((#[^)]+)\)/ matches at i
IsLinkAt(s, i) ==
    LET j == LinkTextEnd(s, i)
        k == LinkEnd(s, i)
    IN  /\ s[i] = "["
        /\ j >= i + 2
        /\ j + 2 <= Len(s) /\ s[j + 1] = "(" /\ s[j + 2] = "#"
        /\ k >= j + 4

DocsUrl ==
    <<"h", "t", "t", "p", "s", ":", "/", "/", "d", "o", "c", "s", ".", "u", "p", "s", "u",
      "n", ".", "c", "o", "m", "/", "a", "p", "i", "/">>

\* the callback: $text . ' (' . $url . ')'
LinkReplacement(text, anchor) ==
    LET url == StrReplace(StrReplace(StrReplace(DocsUrl \o anchor, <<"~", "1">>, <<"/">>),
                                     <<"%", "7", "B">>, <<"{">>),
                          <<"%", "7", "D">>, <<"}">>)
    IN  text \o <<" ", "(">> \o url \o <<")">>

RECURSIVE RewriteLinks(_)
RewriteLinks(s) ==
    IF s = <<>> THEN <<>>
    ELSE IF IsLinkAt(s, 1)
         THEN LinkReplacement(SubSeq(s, 2, LinkTextEnd(s, 1) - 1),
                              SubSeq(s, LinkTextEnd(s, 1) + 2, LinkEnd(s, 1) - 1))
              \o RewriteLinks(SubSeq(s, LinkEnd(s, 1) + 1, Len(s)))
         ELSE <<Head(s)>> \o RewriteLinks(Tail(s))

RECURSIVE TrimLeft(_)
TrimLeft(s) == IF s # <<>> /\ IsSpace(Head(s)) THEN TrimLeft(Tail(s)) ELSE s

RECURSIVE TrimRight(_)
TrimRight(s) ==
    IF s # <<>> /\ IsSpace(s[Len(s)]) THEN TrimRight(SubSeq(s, 1, Len(s) - 1)) ELSE s

\* trim($s)
Trim(s) == TrimRight(TrimLeft(s))

RECURSIVE SkipSpaces(_, _)
SkipSpaces(s, i) == IF i <= Len(s) /\ IsSpace(s[i]) THEN SkipSpaces(s, i + 1) ELSE i

\* the index of the ">" of a tag /<br\s*\/?>/i that starts at s[1], or 0
BrEnd(s) ==
    LET a == SkipSpaces(s, 4)
        b == IF a <= Len(s) /\ s[a] = "/" THEN a + 1 ELSE a
    IN  IF Len(s) >= 4 /\ s[1] = "<" /\ s[2] \in {"b", "B"} /\ s[3] \in {"r", "R"}
           /\ b <= Len(s) /\ s[b] = ">"
        THEN b ELSE 0

RECURSIVE RemoveBr(_)
RemoveBr(s) ==
    IF s = <<>> THEN <<>>
    ELSE IF BrEnd(s) # 0 THEN RemoveBr(SubSeq(s, BrEnd(s) + 1, Len(s)))
    ELSE <<Head(s)>> \o RemoveBr(Tail(s))

\* the normalisation without the step that collapses white space
NormalizeWithoutCollapse(text) ==
    LET linked == RewriteLinks(text)
        slashes == StrReplace(linked, <<"%", "2", "F">>, <<"/">>)
    IN  RemoveBr(Trim(slashes))

\* $normalized of preprocessDescription: the text that is wrapped
NormalizeDescription(text) ==
    LET linked == RewriteLinks(text)
        slashes == StrReplace(linked, <<"%", "2", "F">>, <<"/">>)
    IN  RemoveBr(ReplaceSpaceRuns(Trim(slashes), <<" ">>))

RECURSIVE WrapFrom(_, _, _, _, _)
\* the loop of wordwrap($text, $linelength, "\n", false) from index current
\* (0-based, as are laststart and lastspace)
WrapFrom(text, linelength, current, laststart, lastspace) ==
    IF current >= Len(text) THEN text
    ELSE LET c == text[current + 1]
         IN  IF c = "\n"
             THEN WrapFrom(text, linelength, current + 1, current + 1, current + 1)
             ELSE IF c = " "
             THEN (IF current - laststart >= linelength
                   THEN WrapFrom([text EXCEPT ![current + 1] = "\n"], linelength,
                                 current + 1, current + 1, current)
                   ELSE WrapFrom(text, linelength, current + 1, laststart, current))
             ELSE IF current - laststart >= linelength /\ laststart # lastspace
             THEN WrapFrom([text EXCEPT ![lastspace + 1] = "\n"], linelength,
                           current + 1, lastspace + 1, lastspace)
             ELSE WrapFrom(text, linelength, current + 1, laststart, lastspace)

wordwrap(text, linelength) == WrapFrom(text, linelength, 0, 0, 0)

RECURSIVE ExplodeLines(_)
\* explode("\n", $s)
ExplodeLines(s) ==
    LET first == IndexFrom(s, "\n", 1)
    IN  IF first = 0 THEN <<Str(s)>>
        ELSE <<Str(SubSeq(s, 1, first - 1))>> \o ExplodeLines(SubSeq(s, first + 1, Len(s)))

preprocessDescription(text, linelength) ==
    List(ExplodeLines(wordwrap(NormalizeDescription(text), linelength)))

DefaultWrap == 113
ParameterWrap == 80

\* $n['x-description'] = preprocessDescription($n['description'], $w) when
\* !empty($n['description'])
Describe(n, w) ==
    IF Truthy(Get(n, K("description")))
    THEN Set(n, K("x-description"), preprocessDescription(Get(n, K("description"))[2], w))
    ELSE n

RECURSIVE wordwrapSchemaDescription(_, _)
wordwrapSchemaDescription(sch, linelength) ==
    LET nested(n) == wordwrapSchemaDescription(n, DefaultWrap)
        property(prop) ==
            LET p1 == Describe(prop, linelength)
            IN  IF Truthy(Get(p1, K("properties"))) /\ IsArr(Get(p1, K("properties")))
                THEN nested(p1) ELSE p1
        s1 == Describe(sch, linelength)
        s2 == IF Truthy(Get(s1, K("properties"))) /\ IsArr(Get(s1, K("properties")))
              THEN Set(s1, K("properties"), MapArr(Get(s1, K("properties")), property))
              ELSE s1
        members(n, key) == IF Truthy(Get(n, key)) /\ IsArr(Get(n, key))
                           THEN Set(n, key, MapArr(Get(n, key), nested))
                           ELSE n
    IN  members(members(members(s2, K("allOf")), K("anyOf")), K("oneOf"))

wordwrapDescription(doc) ==
    LET operation(op) ==
            IF Isset(op, K("description"))
            THEN Set(op, K("x-description"),
                     preprocessDescription(Get(op, K("description"))[2], DefaultWrap))
            ELSE op
        sch(sc) == wordwrapSchemaDescription(sc, DefaultWrap)
        parameter(pa) == wordwrapSchemaDescription(pa, ParameterWrap)
        doc1 == ForEachSchema(ForEachOperation(doc, operation), sch)
    IN  Set(doc1, K("components"), ForEachRef(Get(doc1, K("components")), K("parameters"), parameter))

(***************************************************************************)
(* Discriminator dedup                                                     *)
(***************************************************************************)
addUniqueDiscriminatorModels(doc) ==
    LET sch(sc) ==
            LET mapping == Ents(GetPath(sc, <<K("discriminator"), K("mapping")>>))
                models == [i \in DOMAIN mapping |-> Str(LastSegment(mapping[i][2][2]))]
            IN  IF IssetPath(sc, <<K("discriminator"), K("mapping")>>)
                THEN Set(sc, K("x-uniqueDiscriminatorModels"), List(Unique(models)))
                ELSE sc
    IN  ForEachSchema(doc, sch)

(***************************************************************************)
(* Serializer                                                              *)
(***************************************************************************)
\* new stdClass()
StdClass == <<"obj", <<>>>>

RECURSIVE forceEmptyObjectsEverywhere(_, _)
\* forceEmptyObjects without the exception for the security node
forceEmptyObjectsEverywhere(data, path) ==
    IF ~IsArr(data) THEN data
    ELSE IF Ents(data) = <<>> THEN StdClass
    ELSE Arr([i \in DOMAIN Ents(data) |->
              <<Ents(data)[i][1],
                forceEmptyObjectsEverywhere(Ents(data)[i][2], Append(path, Ents(data)[i][1]))>>])

RECURSIVE forceEmptyObjects(_, _)
\* path: the keys from the root to data
forceEmptyObjects(data, path) ==
    LET isSecurityNode == path # <<>> /\ path[Len(path)] = K("BearerAuth")
    IN  IF ~IsArr(data) THEN data
        ELSE IF Ents(data) = <<>> /\ ~isSecurityNode THEN StdClass
        ELSE IF Ents(data) = <<>> /\ isSecurityNode THEN EmptyArr
        ELSE Arr([i \in DOMAIN Ents(data) |->
                  <<Ents(data)[i][1],
                    forceEmptyObjects(Ents(data)[i][2], Append(path, Ents(data)[i][1]))>>])

RECURSIVE JsonEncode(_)
\* json_encode(): a JSON value <<"object", entries>>, <<"list", values>> or a scalar
JsonEncode(v) ==
    IF v = StdClass THEN <<"object", <<>>>>
    ELSE IF ~IsArr(v) THEN v
    ELSE IF IsList(v) THEN <<"list", [i \in DOMAIN Ents(v) |-> JsonEncode(Ents(v)[i][2])]>>
    ELSE <<"object", [i \in DOMAIN Ents(v) |-> <<Ents(v)[i][1], JsonEncode(Ents(v)[i][2])>>]>>

\* the text save() writes
Encoded(doc) == JsonEncode(forceEmptyObjects(doc, <<>>))

(***************************************************************************)
(* Input documents                                                         *)
(***************************************************************************)
\* what the constructor finds at $schemaPath when it is no JSON document
MissingFile == <<"missing", <<>>>>
InvalidJson == <<"invalid", <<>>>>
NoFile == <<"nofile", <<>>>>

HttpAccessTag == <<"HTTP", " ", "access", " ", "permissions">>

JsonResponse(text, sch) ==
    Obj(<< <<"description", S(text)>>,
           <<"content", Obj(<< <<"application/json", Obj(<< <<"schema", sch>> >>)>> >>)>> >>)

RefTo(name) == Obj(<< <<"$ref", SchemaRef(name)>> >>)

BasePaths ==
    Obj(<<
      <<"/projects/{projectId}", Obj(<<
          <<"get", Obj(<<
              <<"operationId", S("get-projects")>>,
              <<"tags", List(<< Str(HttpAccessTag) >>)>>,
              <<"description", Str(<<"See", " ", "[", "l", "o", "g", "i", "n", "]", "(", "#",
                                     "/", "paths", "/", "~", "1", "login", "/", "post", ")",
                                     "\n", "<", "b", "r", ">", "details">>)>>,
              <<"parameters", EmptyArr>>,
              <<"x-internal", Bool(TRUE)>>,
              <<"responses", Arr(<<
                  <<<<"2", "0", "0">>, JsonResponse("OK", RefTo(<<"Project">>))>> >>)>> >>)>>,
          <<"delete", Obj(<<
              <<"operationId", S("delete-projects")>>,
              <<"deprecated", Bool(TRUE)>>,
              <<"responses", Arr(<<
                  <<<<"2", "0", "4">>, Obj(<< <<"description", S("No Content")>> >>)>> >>)>> >>)>>
          >>)>> >>)

ProjectSchema ==
    Obj(<<
      <<"type", S("object")>>,
      <<"description", Text(<<"The", "project">>)>>,
      <<"x-internal", Bool(FALSE)>>,
      <<"properties", Obj(<<
          <<"id", Obj(<< <<"type", S("string")>> >>)>>,
          <<"created_at", Obj(<< <<"type", S("string")>>, <<"format", S("date-time")>>,
                                 <<"deprecated", Bool(TRUE)>> >>)>>,
          <<"subscription", Obj(<<
              <<"type", S("object")>>,
              <<"nullable", Bool(TRUE)>>,
              <<"required", List(<< S("plan") >>)>>,
              <<"properties", Obj(<< <<"plan", Obj(<< <<"type", S("string")>> >>)>> >>)>> >>)>>
          >>)>> >>)

UserSchema ==
    Obj(<< <<"type", S("object")>>,
           <<"properties", Obj(<< <<"name", Obj(<< <<"type", S("string")>> >>)>> >>)>> >>)

BaseSchemas ==
    Obj(<< <<"Project", ProjectSchema>>, <<"User", UserSchema>> >>)

BaseParameters ==
    Obj(<< <<"OrganizationIDName", Obj(<<
             <<"name", S("organization_id")>>,
             <<"in", S("path")>>,
             <<"description", Text(<<"The", "ID", "of", "the", "organization.">>)>>,
             <<"schema", Obj(<< <<"type", S("string")>> >>)>> >>)>> >>)

Document(paths, schemas) ==
    Obj(<< <<"openapi", S("3.0.2")>>,
           <<"paths", paths>>,
           <<"components", Obj(<< <<"schemas", schemas>>, <<"parameters", BaseParameters>> >>)>> >>)

BaseDocument == Document(BasePaths, BaseSchemas)

\* a document with one more schema
WithSchema(doc, name, sch) == SetPath(doc, SchemasPath \o <<name>>, sch)

---------------------------------------------------------------------------
\* Schemas with references that carry sibling keys, nested up to MaxDepth
MaxDepth == 2

RefLeaves ==
    { Obj(<< <<"type", S("string")>> >>),
      RefTo(<<"User">>),
      Obj(<< <<"$ref", SchemaRef(<<"User">>)>>, <<"description", S("x")>> >>),
      Obj(<< <<"nullable", Bool(TRUE)>>, <<"$ref", SchemaRef(<<"User">>)>>,
             <<"description", S("y")>> >>) }

RECURSIVE RefTrees(_)
RefTrees(d) ==
    IF d = 0 THEN RefLeaves
    ELSE RefLeaves \cup
         UNION { { Obj(<< <<"type", S("object")>>, <<"properties", Obj(<< <<"a", t>> >>)>> >>),
                   Obj(<< <<"$ref", SchemaRef(<<"User">>)>>,
                          <<"properties", Obj(<< <<"a", t>> >>)>> >>),
                   Obj(<< <<"description", S("z")>>, <<"$ref", SchemaRef(<<"User">>)>>,
                          <<"allOf", List(<< t >>)>> >>) } : t \in RefTrees(d - 1) }

RefDocuments == { WithSchema(BaseDocument, K("Holder"), t) : t \in RefTrees(MaxDepth) }

---------------------------------------------------------------------------
\* Route variants: each of the three schemas is absent or has one of these shapes
PlainString == Obj(<< <<"type", S("string")>> >>)
NullableString == Obj(<< <<"type", S("string")>>, <<"nullable", Bool(TRUE)>> >>)

RouteSchema(properties, required) ==
    Obj(<< <<"type", S("object")>>, <<"properties", Obj(properties)>>,
           <<"required", List(required)>> >>)

Absent == Null

RouteShapes ==
    { Absent,
      Obj(<< <<"type", S("object")>> >>),
      RouteSchema(<< <<"id", PlainString>> >>, << S("id") >>),
      RouteSchema(<< <<"to", PlainString>> >>, << S("to"), S("ghost") >>),
      RouteSchema(<< <<"id", RefTo(<<"User">>)>>, <<"to", NullableString>> >>,
                  << S("to"), S("id") >>),
      RouteSchema(<< <<"id", NullableString>>, <<"to", PlainString>>,
                     <<"upstream", PlainString>> >>,
                  << S("id"), S("to"), S("upstream") >>) }

UpstreamShapes ==
    { Absent,
      RouteSchema(<< <<"upstream", PlainString>>, <<"id", PlainString>> >>,
                  << S("upstream"), S("id") >>),
      RouteSchema(<< <<"to", NullableString>> >>, << S("to") >>) }

\* a document with the schema, or without it when the schema is Absent
WithRoute(doc, name, sch) == IF sch = Absent THEN doc ELSE WithSchema(doc, name, sch)

RouteDocuments ==
    { WithRoute(WithRoute(WithRoute(BaseDocument, routeTypes[1], p), routeTypes[2], r),
                routeTypes[3], u) :
        p \in RouteShapes, r \in RouteShapes, u \in UpstreamShapes }

---------------------------------------------------------------------------
\* Schema names: up to MaxNameParts of these parts, one after the other
MaxNameParts == 2

NameParts ==
    { <<"A", "P", "I">>, <<"S", "S", "H">>, <<"M", "F">>, <<"A">>, <<"P", "I">>,
      <<"a", "p", "i", "_", "t", "o", "k", "e", "n">>, <<"7">> }

RECURSIVE NamesOf(_)
NamesOf(n) ==
    IF n = 1 THEN NameParts
    ELSE NamesOf(n - 1) \cup {a \o b : a \in NamesOf(n - 1), b \in NameParts}

SchemaNames == NamesOf(MaxNameParts)

OwnerPath == SchemasPath \o <<K("Owner")>>

\* a document with a schema of the given name, which refers to itself and is
\* referred to by the schema Owner
RenameDocument(name) ==
    WithSchema(
        WithSchema(BaseDocument, name,
                   Obj(<< <<"type", S("object")>>,
                          <<"properties", Obj(<< <<"next", RefTo(name)>> >>)>> >>)),
        K("Owner"),
        Obj(<< <<"type", S("object")>>,
               <<"properties", Obj(<< <<"item", RefTo(name)>> >>)>> >>))

RenameDocuments == { RenameDocument(name) : name \in SchemaNames }

\* two schemas, some of whose names differ in the case of an acronym only, and
\* a schema that chooses between them with a discriminator
TokenNames ==
    { <<"A", "P", "I", "Token">>, <<"A", "p", "i", "Token">>,
      <<"S", "S", "H", "Key">>, <<"S", "s", "h", "Key">> }

TokenSchema(name) ==
    Obj(<< <<"type", S("object")>>, <<"title", Str(name)>>,
           <<"properties", Obj(<< <<"kind", PlainString>> >>)>> >>)

CredentialSchema(a, b) ==
    Obj(<< <<"oneOf", List(<< RefTo(a), RefTo(b) >>)>>,
           <<"discriminator", Obj(<< <<"propertyName", S("kind")>>,
                                     <<"mapping", Obj(<< <<"first", SchemaRef(a)>>,
                                                         <<"second", SchemaRef(b)>> >>)>> >>)>> >>)

PolymorphicDocument(a, b) ==
    WithSchema(WithSchema(WithSchema(BaseDocument, a, TokenSchema(a)), b, TokenSchema(b)),
               K("Credential"), CredentialSchema(a, b))

PolymorphicDocuments ==
    { PolymorphicDocument(a, b) : a \in TokenNames, b \in TokenNames \ {<<"S", "s", "h", "Key">>} }

---------------------------------------------------------------------------
\* Operations with up to MaxResponses responses under different status codes
MaxResponses == 2

NoContentResponse(text) == Obj(<< <<"description", S(text)>> >>)

ResponseOptions ==
    { <<<<"2", "0", "0">>, NoContentResponse("OK")>>,
      <<<<"2", "0", "4">>, NoContentResponse("No Content")>>,
      <<<<"2", "0", "2">>, Obj(<< <<"description", S("Accepted")>>, <<"content", EmptyArr>> >>)>>,
      <<K("default"), NoContentResponse("Done")>>,
      <<<<"2", "0", "0">>, JsonResponse("OK", RefTo(<<"Project">>))>>,
      <<<<"2", "0", "1">>, JsonResponse("Created",
            Obj(<< <<"type", S("array")>>, <<"items", RefTo(<<"User">>)>> >>))>>,
      <<<<"4", "0", "4">>, JsonResponse("Not Found", RefTo(<<"User">>))>> }

RECURSIVE ResponseLists(_)
\* the lists of at most n responses, no status code twice
ResponseLists(n) ==
    IF n = 0 THEN {<<>>}
    ELSE ResponseLists(n - 1) \cup
         UNION { { Append(l, r) :
                       r \in {o \in ResponseOptions : \A i \in DOMAIN l : l[i][1] # o[1]} } :
                 l \in ResponseLists(n - 1) }

ThingsPath == <<K("paths"), K("/things")>>

ReturnDocument(responses) ==
    SetPath(BaseDocument, ThingsPath \o <<K("get")>>,
            Obj(<< <<"operationId", S("list-things")>>,
                   <<"responses", Arr(responses)>> >>))

ReturnDocuments == { ReturnDocument(l) : l \in ResponseLists(MaxResponses) \ {<<>>} }

---------------------------------------------------------------------------
\* Operations with one success response, of these schemas
ArrayEnvelope ==
    Obj(<< <<"type", S("object")>>,
           <<"properties", Obj(<< <<"items", Obj(<< <<"type", S("array")>>,
                                                    <<"items", RefTo(<<"User">>)>> >>)>> >>)>> >>)

ReferenceEnvelope ==
    Obj(<< <<"type", S("object")>>,
           <<"properties", Obj(<< <<"items", RefTo(<<"User">>)>> >>)>> >>)

MissingRef == RefTo(<<"Missing">>)

ResponseSchemas ==
    { ArrayEnvelope, ReferenceEnvelope, MissingRef, RefTo(<<"User">>),
      Obj(<< <<"type", S("object")>>, <<"properties", Obj(<< <<"count", Obj(<< <<"type", S("integer")>> >>)>> >>)>> >>),
      Obj(<< <<"type", S("object")>>,
             <<"additionalProperties", MissingRef>> >>) }

MembersPath == <<K("paths"), K("/members")>>

SuccessCodes == { <<"2", "0", "0">>, K("default") }

SchemaDocument(code, sch) ==
    SetPath(BaseDocument, MembersPath \o <<K("get")>>,
            Obj(<< <<"operationId", S("list-members")>>,
                   <<"responses", Arr(<< <<code, JsonResponse("OK", sch)>>,
                                         <<<<"4", "0", "4">>, JsonResponse("Not Found", RefTo(<<"Project">>))>> >>)>> >>))

SchemaDocuments == { SchemaDocument(c, sch) : c \in SuccessCodes, sch \in ResponseSchemas }

\* the success response of GET /members refers to the schema Users, which has
\* one of these shapes
ArrayOf(items) == Obj(<< <<"type", S("array")>>, <<"items", items>> >>)

ListSchemas ==
    { ArrayOf(RefTo(<<"User">>)), ArrayOf(RefTo(<<"Project">>)), ArrayOf(PlainString),
      Obj(<< <<"type", S("array")>> >>), UserSchema,
      Obj(<< <<"items", RefTo(<<"User">>)>> >>) }

ListDocuments ==
    { WithSchema(SchemaDocument(c, RefTo(<<"Users">>)), K("Users"), sch) :
          c \in SuccessCodes, sch \in ListSchemas }

---------------------------------------------------------------------------
\* Values with empty arrays in them, nested up to MaxDepth
RECURSIVE EmptyTrees(_)
EmptyTrees(d) ==
    IF d = 0 THEN {EmptyArr, S("x")}
    ELSE EmptyTrees(0) \cup
         UNION { { Obj(<< <<"BearerAuth", t>> >>), Obj(<< <<"extra", t>> >>), List(<< t >>) } :
                 t \in EmptyTrees(d - 1) }

SettingsPath == SchemasPath \o <<K("Settings")>>

SerialDocuments ==
    { WithSchema(BaseDocument, K("Settings"),
                 Obj(<< <<"type", S("object")>>, <<"example", t>>,
                        <<"additionalProperties", EmptyArr>> >>)) :
      t \in EmptyTrees(MaxDepth) }

---------------------------------------------------------------------------
\* a document whose Project has the property subscription.id
GuardDocument ==
    SetPath(BaseDocument,
            SchemasPath \o <<K("Project"), K("properties"), K("subscription"),
                              K("properties"), K("id")>>,
            PlainString)

\* Documents that have the paths the path patches add, with these operations
SourceOperation(id) ==
    Obj(<< <<"operationId", S(id)>>,
           <<"responses", Arr(<< <<<<"2", "0", "4">>, NoContentResponse("No Content")>> >>)>> >>)

PatchedPathShapes ==
    { Absent,
      Obj(<< <<"get", SourceOperation("source-get")>> >>),
      Obj(<< <<"patch", SourceOperation("source-patch")>> >>),
      Obj(<< <<"patch", SourceOperation("source-patch")>>,
             <<"get", SourceOperation("source-get")>> >>) }

WithPath(doc, path, methods) == IF methods = Absent THEN doc ELSE SetPath(doc, path, methods)

PatchDocuments ==
    { WithPath(WithPath(BaseDocument, OrgAddonsPath, a), ResourcePath, r) :
        a \in PatchedPathShapes, r \in PatchedPathShapes }

---------------------------------------------------------------------------
\* documents whose Project has the property subscription.id, of other shapes
GuardDocuments ==
    { SetPath(d, SchemasPath \o <<K("Project"), K("properties"), K("subscription"),
                                   K("properties"), K("id")>>, id) :
      d \in {BaseDocument, SchemaDocument(K("default"), ArrayEnvelope)},
      id \in {PlainString, RefTo(<<"User">>),
              Obj(<< <<"$ref", SchemaRef(<<"User">>)>>, <<"nullable", Bool(TRUE)>> >>)} }

\* a document without the schema Project
NoProjectDocument == Document(BasePaths, Obj(<< <<"User", UserSchema>> >>))

---------------------------------------------------------------------------
\* The documents of a run
Inputs ==
    {MissingFile, InvalidJson, EmptyArr, GuardDocument, NoProjectDocument}
        \cup RefDocuments \cup RouteDocuments \cup RenameDocuments
        \cup ReturnDocuments \cup SerialDocuments \cup SchemaDocuments
        \cup GuardDocuments \cup PatchDocuments \cup ListDocuments
        \cup PolymorphicDocuments

(***************************************************************************)
(* The driver                                                              *)
(***************************************************************************)
HttpAccessFixed == <<"Http", " ", "access", " ", "permissions">>

RECURSIVE replaceHTTPAccessPermission(_)
\* str_replace() on the text of the file reaches every key and every string
replaceHTTPAccessPermission(content) ==
    IF IsStr(content) THEN Str(StrReplace(content[2], HttpAccessTag, HttpAccessFixed))
    ELSE IF IsArr(content)
         THEN Arr([i \in DOMAIN Ents(content) |->
                   <<StrReplace(Ents(content)[i][1], HttpAccessTag, HttpAccessFixed),
                     replaceHTTPAccessPermission(Ents(content)[i][2])>>])
         ELSE content

Init ==
    /\ input \in Inputs
    /\ pc = "construct"
    /\ schema = Null
    /\ refUpdateCount = 0
    /\ output = NoFile
    /\ exitCode = -1
    /\ description = <<>>
    /\ wordwrapLength = DefaultWrap
    /\ lines = Null
    /\ word = <<>>
    /\ order = <<>>
    /\ pascal = <<>>

\* catch (Exception $e): exit(1)
Fail == pc' = "done" /\ exitCode' = 1

\* an Error the driver does not catch ends the script with status 255
Crash == pc' = "done" /\ exitCode' = 255

\* one call of the main script that changes the document only
Pass(at, next, result) ==
    /\ pc = at
    /\ pc' = next
    /\ schema' = result
    /\ UNCHANGED <<input, refUpdateCount, output, exitCode, call, table>>

Construct ==
    /\ pc = "construct"
    /\ LET loaded == fixAllRefsWithAllOf(replaceHTTPAccessPermission(input))
       IN  IF input \in {MissingFile, InvalidJson}
           THEN Fail /\ UNCHANGED schema
           ELSE /\ schema' = loaded
                /\ IF ~Truthy(loaded) THEN Fail
                   ELSE pc' = "checkProjectSubscriptionId" /\ UNCHANGED exitCode
    /\ UNCHANGED <<input, refUpdateCount, output, call, table>>

CheckProjectSubscriptionId ==
    /\ pc = "checkProjectSubscriptionId"
    /\ schema' = checkProjectSubscriptionId(schema)
    /\ IF checkProjectSubscriptionIdThrows(schema) THEN Fail
       ELSE pc' = "normalizeSchemaNamesToPascalCase" /\ UNCHANGED exitCode
    /\ UNCHANGED <<input, refUpdateCount, output, call, table>>

NormalizeSchemaNamesToPascalCase ==
    /\ pc = "normalizeSchemaNamesToPascalCase"
    /\ pc' = "fixTagsToPascalCase"
    /\ schema' = normalizeSchemaNamesToPascalCase(schema).doc
    /\ refUpdateCount' = refUpdateCount + normalizeSchemaNamesToPascalCase(schema).n
    /\ UNCHANGED <<input, output, exitCode, call, table>>

FixTagsToPascalCase ==
    Pass("fixTagsToPascalCase", "makePropertiesNullable", fixTagsToPascalCase(schema))

MakePropertiesNullable ==
    Pass("makePropertiesNullable", "markDateTimeProperties", makePropertiesNullable(schema))

MarkDateTimeProperties ==
    /\ pc = "markDateTimeProperties"
    /\ IF markDateTimePropertiesThrows(schema)
       THEN Crash /\ UNCHANGED schema
       ELSE /\ schema' = markDateTimeProperties(schema)
            /\ pc' = "cleanRequiredProperties"
            /\ UNCHANGED exitCode
    /\ UNCHANGED <<input, refUpdateCount, output, call, table>>

CleanRequiredProperties ==
    Pass("cleanRequiredProperties", "addOrgAddonsPatch", cleanRequiredProperties(schema))

AddOrgAddonsPatch ==
    Pass("addOrgAddonsPatch", "removeProjectDeletePath", addOrgAddonsPatch(schema))

RemoveProjectDeletePath ==
    Pass("removeProjectDeletePath", "fixEmptyParameters", removeProjectDeletePath(schema))

FixEmptyParameters ==
    Pass("fixEmptyParameters", "replaceEmptyRefResponsesWithAccepted", fixEmptyParameters(schema))

\* the main script without its call of addResourcePath
ReplaceEmptyRefResponsesThenFixNullable ==
    Pass("replaceEmptyRefResponsesWithAccepted", "fixNullableRequired",
         replaceEmptyRefResponsesWithAccepted(schema))

ReplaceEmptyRefResponsesWithAccepted ==
    Pass("replaceEmptyRefResponsesWithAccepted", "addResourcePath",
         replaceEmptyRefResponsesWithAccepted(schema))

AddResourcePath ==
    Pass("addResourcePath", "fixNullableRequired", addResourcePath(schema))

FixNullableRequired ==
    Pass("fixNullableRequired", "renameXInternal", fixNullableRequired(schema))

RenameXInternal ==
    Pass("renameXInternal", "renameDeprecated", renameXInternal(schema))

RenameDeprecated ==
    Pass("renameDeprecated", "addXReturn", renameDeprecated(schema))

AddXReturn ==
    Pass("addXReturn", "wordwrapDescription", addXReturn(schema))

WordwrapDescription ==
    Pass("wordwrapDescription", "addUniqueDiscriminatorModels", wordwrapDescription(schema))

AddUniqueDiscriminatorModels ==
    Pass("addUniqueDiscriminatorModels", "save", addUniqueDiscriminatorModels(schema))

\* file_put_contents() may fail: the RuntimeException ends the run
Save ==
    /\ pc = "save"
    /\ \E written \in BOOLEAN :
           IF written
           THEN output' = Encoded(schema) /\ pc' = "showReport" /\ UNCHANGED exitCode
           ELSE Fail /\ UNCHANGED output
    /\ UNCHANGED <<input, schema, refUpdateCount, call, table>>

ShowReport ==
    /\ pc = "showReport"
    /\ pc' = "done"
    /\ exitCode' = 0
    /\ UNCHANGED <<input, schema, refUpdateCount, output, call, table>>

Next ==
    \/ Construct
    \/ CheckProjectSubscriptionId
    \/ NormalizeSchemaNamesToPascalCase
    \/ FixTagsToPascalCase
    \/ MakePropertiesNullable
    \/ MarkDateTimeProperties
    \/ CleanRequiredProperties
    \/ AddOrgAddonsPatch
    \/ RemoveProjectDeletePath
    \/ FixEmptyParameters
    \/ ReplaceEmptyRefResponsesWithAccepted
    \/ AddResourcePath
    \/ FixNullableRequired
    \/ RenameXInternal
    \/ RenameDeprecated
    \/ AddXReturn
    \/ WordwrapDescription
    \/ AddUniqueDiscriminatorModels
    \/ Save
    \/ ShowReport

Spec == Init /\ [][Next]_vars

(***************************************************************************)
(* addXReturn on its own: the pass applied to documents that have not gone *)
(* through the constructor                                                 *)
(***************************************************************************)
RequestProperties ==
    { Obj(<< <<"$ref", SchemaRef(<<"User">>)>>, <<"default", Null>> >>),
      Obj(<< <<"default", S("x")>>, <<"$ref", SchemaRef(<<"User">>)>> >>),
      RefTo(<<"User">>),
      Obj(<< <<"type", S("string")>>, <<"default", S("x")>> >>),
      Obj(<< <<"allOf", List(<< RefTo(<<"User">>), Obj(<< <<"default", Null>> >>) >>)>> >>) }

RequestSchemaPath ==
    <<K("requestBody"), K("content"), K("application/json"), K("schema")>>

RequestDocument(owner, responses) ==
    SetPath(BaseDocument, ThingsPath \o <<K("post")>>,
            SetPath(Obj(<< <<"operationId", S("create-thing")>>,
                           <<"responses", Arr(responses)>> >>),
                    RequestSchemaPath,
                    Obj(<< <<"type", S("object")>>,
                           <<"properties", Obj(<< <<"name", PlainString>>,
                                                  <<"owner", owner>> >>)>> >>)))

RequestDocuments ==
    { RequestDocument(owner, l) :
        owner \in RequestProperties, l \in ResponseLists(MaxResponses) \ {<<>>} }

InitAnnotate ==
    /\ input \in RequestDocuments
    /\ schema = input
    /\ pc = "addXReturn"
    /\ refUpdateCount = 0
    /\ output = NoFile
    /\ exitCode = -1
    /\ description = <<>>
    /\ wordwrapLength = DefaultWrap
    /\ lines = Null
    /\ word = <<>>
    /\ order = <<>>
    /\ pascal = <<>>

NextAnnotate == AddXReturn

SpecAnnotate == InitAnnotate /\ [][NextAnnotate]_vars

(***************************************************************************)
(* The acronym substitutions of toPascalCase, applied in any order         *)
(***************************************************************************)
\* Names: up to MaxAcronymParts of these parts, one after the other
MaxAcronymParts == 2

AcronymParts ==
    { Substitutions[i][1] : i \in DOMAIN Substitutions }
        \cup { <<"M", "F">>, <<"T", "L">>, <<"P", "I">> }

RECURSIVE AcronymNames(_)
AcronymNames(n) ==
    IF n = 0 THEN {<<>>}
    ELSE AcronymNames(n - 1) \cup
         {a \o b : a \in AcronymNames(n - 1), b \in AcronymParts}

\* the orders the substitutions can be applied in
Orders ==
    { o \in [DOMAIN Substitutions -> DOMAIN Substitutions] :
        \A i, j \in DOMAIN o : o[i] = o[j] => i = j }

RECURSIVE Substitute(_, _)
\* $name = str_replace([from], to, $name) for the substitutions in the order o
Substitute(name, o) ==
    IF o = <<>> THEN name
    ELSE Substitute(StrReplace(name, Substitutions[Head(o)][1], Substitutions[Head(o)][2]),
                    Tail(o))

InitSubstitute ==
    /\ word \in AcronymNames(MaxAcronymParts)
    /\ order \in Orders
    /\ pascal = <<>>
    /\ pc = "toPascalCase"
    /\ input = NoFile
    /\ schema = Null
    /\ refUpdateCount = 0
    /\ output = NoFile
    /\ exitCode = -1
    /\ description = <<>>
    /\ wordwrapLength = DefaultWrap
    /\ lines = Null

ToPascalCase ==
    /\ pc = "toPascalCase"
    /\ pc' = "returned"
    /\ pascal' = Substitute(word, order)
    /\ UNCHANGED <<input, schema, refUpdateCount, output, exitCode, call, word, order>>

NextSubstitute == ToPascalCase

SpecSubstitute == InitSubstitute /\ [][NextSubstitute]_vars

(***************************************************************************)
(* preprocessDescription on its own                                        *)
(***************************************************************************)
\* Descriptions: up to MaxPieces of these pieces, one after the other
MaxPieces == 4
\* The wrap widths: 0 .. MaxWidth
MaxWidth == 3

DescriptionPieces ==
    { <<"a">>, <<" ">>, <<"\n">>, <<"<", "b", "r", ">">>, <<"%", "2", "F">>,
      <<"[", "t", "]", "(", "#", "~", "1", "x", ")">> }

RECURSIVE DescriptionsOf(_)
DescriptionsOf(n) ==
    IF n = 0 THEN {<<>>}
    ELSE DescriptionsOf(n - 1) \cup
         {a \o b : a \in DescriptionsOf(n - 1), b \in DescriptionPieces}

InitDescription ==
    /\ description \in DescriptionsOf(MaxPieces)
    /\ wordwrapLength \in 0 .. MaxWidth
    /\ lines = Null
    /\ word = <<>>
    /\ order = <<>>
    /\ pascal = <<>>
    /\ pc = "preprocessDescription"
    /\ input = NoFile
    /\ schema = Null
    /\ refUpdateCount = 0
    /\ output = NoFile
    /\ exitCode = -1

PreprocessDescription ==
    /\ pc = "preprocessDescription"
    /\ pc' = "returned"
    /\ lines' = preprocessDescription(description, wordwrapLength)
    /\ UNCHANGED <<input, schema, refUpdateCount, output, exitCode, description,
                   wordwrapLength, table>>

NextDescription == PreprocessDescription

SpecDescription == InitDescription /\ [][NextDescription]_vars

(***************************************************************************)
(* Properties                                                              *)
(***************************************************************************)
\* the document the constructor decodes, before fixAllRefsWithAllOf
Decoded == replaceHTTPAccessPermission(input)

\* the constructor has returned
Constructed == pc = "checkProjectSubscriptionId"

HolderPath == SchemasPath \o <<K("Holder")>>

\* the entries of a node other than `$ref`
ExtraKeys(node) ==
    LET notRef(e) == e[1] # K("$ref")
    IN  SelectSeq(Ents(node), notRef)

\* a node with a `$ref` that is set, and other keys beside it
HasRefAndExtras(node) == Isset(node, K("$ref")) /\ ExtraKeys(node) # <<>>

RECURSIVE NoRefWithSibling(_)
\* no mapping of the tree has the key `$ref` and another key
NoRefWithSibling(node) ==
    IsArr(node) =>
        /\ ~(Has(node, K("$ref")) /\ Count(node) > 1)
        /\ \A i \in DOMAIN Ents(node) : NoRefWithSibling(Ents(node)[i][2])

\* C1: after fixAllRefsWithAllOf has run on the document, no mapping anywhere
\* in the tree carries a `$ref` key together with a sibling key.
C1_NoRefWithSibling == Constructed => NoRefWithSibling(schema)

\* a document whose Holder schema has a `$ref` with siblings, one of which
\* holds a `$ref` with siblings again, has been normalised
C1_Witness ==
    /\ Constructed
    /\ HasRefAndExtras(GetPath(input, HolderPath))
    /\ ~NoRefWithSibling(Arr(ExtraKeys(GetPath(input, HolderPath))))
    /\ NoRefWithSibling(schema)

RECURSIVE RefRewritten(_, _)
\* after is before rewritten: a node with a `$ref` R that is set and extra
\* keys E is {allOf: [{$ref: R}, E]}, the values of both members rewritten in
\* turn; any other node has the same keys in the same order, its values
\* rewritten
RefRewritten(before, after) ==
    LET sameKeys(b, a) ==
            /\ IsArr(a)
            /\ Len(a[2]) = Len(b)
            /\ \A i \in DOMAIN b :
                   /\ a[2][i][1] = b[i][1]
                   /\ RefRewritten(b[i][2], a[2][i][2])
        allOf == Get(after, K("allOf"))
    IN  IF ~IsArr(before) THEN after = before
        ELSE IF HasRefAndExtras(before)
             THEN /\ IsArr(after) /\ Count(after) = 1 /\ Has(after, K("allOf"))
                  /\ IsArr(allOf) /\ Count(allOf) = 2
                  /\ Ents(allOf)[1][1] = IdxKey(0) /\ Ents(allOf)[2][1] = IdxKey(1)
                  /\ sameKeys(<< <<K("$ref"), Get(before, K("$ref"))>> >>, Ents(allOf)[1][2])
                  /\ sameKeys(ExtraKeys(before), Ents(allOf)[2][2])
             ELSE sameKeys(Ents(before), after)

\* C9 (amended): fixAllRefsWithAllOf rewrites a node that has a `$ref` R and a
\* non-empty set E of other keys into exactly {allOf: [{$ref: R}, E']}, where
\* E' has the keys of E in the same order and each value of E rewritten by the
\* same rule; every other node keeps its keys, its descendants rewritten.
C9_RewrittenRecursively == Constructed => RefRewritten(Decoded, schema)

\* the Holder schema had a `$ref` with siblings and is now an allOf of two
C9_Witness ==
    /\ Constructed
    /\ HasRefAndExtras(GetPath(input, HolderPath))
    /\ Count(GetPath(schema, HolderPath \o <<K("allOf")>>)) = 2
    /\ GetPath(schema, HolderPath) # GetPath(input, HolderPath)

\* C9 as claimed: the node becomes {allOf: [{$ref: R}, E]} with every key and
\* value of E preserved.
C9_ExtrasPreserved ==
    LET holder == GetPath(input, HolderPath)
    IN  (Constructed /\ HasRefAndExtras(holder)) =>
            GetPath(schema, HolderPath) =
                Obj(<< <<"allOf", List(<< Obj(<< <<"$ref", Get(holder, K("$ref"))>> >>),
                                          Arr(ExtraKeys(holder)) >>)>> >>)

---------------------------------------------------------------------------
\* the route types whose schema the document has
PresentRoutes(doc) == {i \in DOMAIN routeTypes : IssetPath(doc, RoutePath(routeTypes[i]))}

RouteProperties(doc, i) == GetPath(doc, RoutePath(routeTypes[i]) \o <<K("properties")>>)

\* the property names the route type i defines
RoutePropertyNames(doc, i) ==
    {Ents(RouteProperties(doc, i))[j][1] : j \in DOMAIN Ents(RouteProperties(doc, i))}

RouteRequired(doc, i) == Ents(GetPath(doc, RoutePath(routeTypes[i]) \o <<K("required")>>))

\* makePropertiesNullable has returned
Propagated == pc = "markDateTimeProperties"

\* C2: after makePropertiesNullable, every property name defined in any of
\* the route-variant schemas present in the document is defined in all of the
\* present route-variant schemas.
C2_SamePropertySurface ==
    Propagated =>
        \A i, j \in PresentRoutes(schema) :
            RoutePropertyNames(schema, i) = RoutePropertyNames(schema, j)

\* two present variants that defined different names define the same names
C2_Witness ==
    /\ Propagated
    /\ \E i, j \in PresentRoutes(input) :
           /\ RoutePropertyNames(input, i) \ RoutePropertyNames(input, j) # {}
           /\ RoutePropertyNames(input, j) \ RoutePropertyNames(input, i) # {}
           /\ RoutePropertyNames(schema, i) = RoutePropertyNames(schema, j)

\* C8: if at least one present route variant defines `id`, then after
\* makePropertiesNullable every present route variant defines `id` with
\* nullable = true, whether it had `id` before or not.
C8_IdNullableEverywhere ==
    (Propagated /\ \E i \in PresentRoutes(input) : K("id") \in RoutePropertyNames(input, i)) =>
        \A i \in PresentRoutes(schema) :
            /\ K("id") \in RoutePropertyNames(schema, i)
            /\ Get(Get(RouteProperties(schema, i), K("id")), K("nullable")) = Bool(TRUE)

\* one variant had a non-nullable `id` and no sibling with a nullable `id`,
\* another variant had no `id`
C8_Witness ==
    /\ Propagated
    /\ \E i, j \in PresentRoutes(input) :
           /\ K("id") \in RoutePropertyNames(input, i)
           /\ \A k \in PresentRoutes(input) :
                  ~IsNullable(Get(RouteProperties(input, k), K("id")))
           /\ K("id") \notin RoutePropertyNames(input, j)
           /\ IsNullable(Get(RouteProperties(schema, i), K("id")))
           /\ IsNullable(Get(RouteProperties(schema, j), K("id")))

\* cleanRequiredProperties has returned and save has not failed
RequiredCleaned ==
    pc \in {"addOrgAddonsPatch", "removeProjectDeletePath", "fixEmptyParameters",
            "replaceEmptyRefResponsesWithAccepted", "addResourcePath",
            "fixNullableRequired", "renameXInternal", "renameDeprecated", "addXReturn",
            "wordwrapDescription", "addUniqueDiscriminatorModels", "save", "showReport"}

\* the names of the `required` list of route type i whose property definition
\* in that variant has nullable = true
RequiredNullable(doc, i) ==
    {j \in DOMAIN RouteRequired(doc, i) :
        /\ IsStr(RouteRequired(doc, i)[j][2])
        /\ Get(Get(RouteProperties(doc, i), RouteRequired(doc, i)[j][2][2]), K("nullable"))
               = Bool(TRUE)}

\* C3: after makePropertiesNullable followed by cleanRequiredProperties, and
\* in every later state of the run up to save, no route-variant schema's
\* `required` list contains a name whose property definition in that variant
\* has nullable = true.
C3_NoRequiredNullable ==
    RequiredCleaned => \A i \in PresentRoutes(schema) : RequiredNullable(schema, i) = {}

\* a variant required `id`, which became nullable, and no longer requires it,
\* while it still requires another name
C3_Witness ==
    /\ pc = "save"
    /\ \E i \in PresentRoutes(input) :
           /\ \E j \in DOMAIN RouteRequired(input, i) : RouteRequired(input, i)[j][2] = S("id")
           /\ ~IsNullable(Get(RouteProperties(input, i), K("id")))
           /\ IsNullable(Get(RouteProperties(schema, i), K("id")))
           /\ \A j \in DOMAIN RouteRequired(schema, i) : RouteRequired(schema, i)[j][2] # S("id")
           /\ RouteRequired(schema, i) # <<>>

---------------------------------------------------------------------------
\* normalizeSchemaNamesToPascalCase has returned
Renamed == pc = "fixTagsToPascalCase"

\* C4: SchemaRenamer is idempotent: running normalizeSchemaNamesToPascalCase a
\* second time on its own result leaves the document, and so
\* components.schemas and every `$ref`, unchanged and does not increase the
\* reference-rewrite counter.
C4_RenamerIdempotent ==
    Renamed =>
        /\ normalizeSchemaNamesToPascalCase(schema).doc = schema
        /\ normalizeSchemaNamesToPascalCase(schema).n = 0

ApiTokenName == <<"a", "p", "i", "_", "t", "o", "k", "e", "n">>
ApiTokenPascal == <<"A", "p", "i", "T", "o", "k", "e", "n">>

\* C10: a schema named `api_token` is renamed to `ApiToken` by the
\* SchemaRenamer, and every reference `#/components/schemas/api_token`
\* elsewhere in the document becomes `#/components/schemas/ApiToken`.
C10_ApiTokenRenamed ==
    (Renamed /\ Has(GetPath(input, SchemasPath), ApiTokenName)) =>
        /\ ~Has(GetPath(schema, SchemasPath), ApiTokenName)
        /\ Has(GetPath(schema, SchemasPath), ApiTokenPascal)
        /\ GetPath(schema, OwnerPath \o <<K("properties"), K("item"), K("$ref")>>)
               = SchemaRef(ApiTokenPascal)

---------------------------------------------------------------------------
\* addXReturn has returned
Annotated == pc = "wordwrapDescription"

\* a status code 2xx, or "default"
IsSuccessStatus(code) ==
    \/ code = K("default")
    \/ Len(code) = 3 /\ code[1] = "2" /\ IsDigit(code[2]) /\ IsDigit(code[3])

SuccessResponses(operation) ==
    LET success(e) == IsSuccessStatus(e[1])
    IN  SelectSeq(Ents(Get(operation, K("responses"))), success)

\* the operation has one success response, and it has no content
OnlySuccessHasNoContent(operation) ==
    /\ Len(SuccessResponses(operation)) = 1
    /\ ~Truthy(Get(SuccessResponses(operation)[1][2], K("content")))

\* the operations of the document: the mappings under a path and a key other
\* than `parameters`
OperationsOf(doc) ==
    UNION { { Ents(m[2])[j][2] : j \in {k \in DOMAIN Ents(m[2]) :
                  IsArr(Ents(m[2])[k][2]) /\ Ents(m[2])[k][1] # K("parameters")} } :
            m \in {Ents(Get(doc, K("paths")))[i] : i \in DOMAIN Ents(Get(doc, K("paths")))} }

\* C5: for an operation whose only success response (status 2xx or "default")
\* has no content, addXReturn sets x-returnable to false and x-return-types to
\* exactly ["void"].
C5_VoidWhenNoContent ==
    Annotated =>
        \A operation \in OperationsOf(schema) :
            OnlySuccessHasNoContent(operation) =>
                /\ Get(operation, K("x-returnable")) = Bool(FALSE)
                /\ Get(operation, K("x-return-types")) = List(<< S("void") >>)

\* an operation with a 404 response that has content and one success
\* response that has none has been annotated
C5_Witness ==
    /\ Annotated
    /\ \E operation \in OperationsOf(schema) :
           /\ OnlySuccessHasNoContent(operation)
           /\ Count(Get(operation, K("responses"))) = 2
           /\ Has(operation, K("x-returnable"))
           /\ Get(operation, K("x-return-types")) = List(<< S("void") >>)

---------------------------------------------------------------------------
\* save() has written the file
Saved == pc = "showReport"

\* the JSON value under a key of a JSON object or at a place of a JSON list
JsonChild(json, i) == IF json[1] = "list" THEN json[2][i] ELSE json[2][i][2]

RECURSIVE EmptiesEncoded(_, _, _)
\* every empty array of data is written as {}, or as [] when the last
\* segment of its path is BearerAuth
EmptiesEncoded(data, json, last) ==
    IF ~IsArr(data) THEN TRUE
    ELSE IF Ents(data) = <<>>
         THEN json = (IF last = K("BearerAuth") THEN <<"list", <<>>>> ELSE <<"object", <<>>>>)
         ELSE /\ json[1] \in {"list", "object"}
              /\ Len(json[2]) = Count(data)
              /\ \A i \in DOMAIN Ents(data) :
                     EmptiesEncoded(Ents(data)[i][2], JsonChild(json, i), Ents(data)[i][1])

\* C6: when the document is saved, every empty mapping node whose last path
\* segment is not `BearerAuth` is encoded as a JSON object {} (never []), and
\* an empty node whose last path segment is `BearerAuth` is encoded as the
\* empty array [].
C6_EmptyMappingsEncoded == Saved => EmptiesEncoded(schema, output, <<>>)

\* a saved document with an empty node under BearerAuth below another key,
\* and an empty node under another key
C6_Witness ==
    /\ Saved
    /\ GetPath(schema, SettingsPath \o <<K("example"), K("extra"), K("BearerAuth")>>) = EmptyArr
    /\ GetPath(schema, SettingsPath \o <<K("additionalProperties")>>) = EmptyArr
    /\ EmptiesEncoded(schema, output, <<>>)

---------------------------------------------------------------------------
\* the elements of the line array, joined with single spaces
JoinedLines == Implode(" ", [i \in DOMAIN Ents(lines) |-> Ents(lines)[i][2]])

\* C7: for every description string and every wrap width, joining the line
\* array returned by preprocessDescription with single spaces reproduces
\* exactly the normalized pre-wrap text (links rewritten, whitespace
\* collapsed, `<br>` tags removed): wrapping only replaces spaces by line
\* breaks and never splits, drops or adds characters.
C7_JoinReproducesNormalized ==
    pc = "returned" => JoinedLines = NormalizeDescription(description)

\* a description the normalisation changes has been wrapped into several lines
C7_Witness ==
    /\ pc = "returned"
    /\ Count(lines) >= 3
    /\ NormalizeDescription(description) # description
    /\ JoinedLines = NormalizeDescription(description)

---------------------------------------------------------------------------
\* the operation GET /members of the document
MembersOperation == GetPath(schema, MembersPath \o <<K("get")>>)

\* the application/json schema of the success response of GET /members
MembersSchema ==
    LET responses == Get(MembersOperation, K("responses"))
    IN  GetPath(Ents(responses)[1][2], JsonSchemaPath)

UserArray == Str(<<ModelPrefix, "User", "[]">>)

\* C11 as stated: for an operation whose success response has the
\* application/json schema {type: object, properties: {items: {type: array,
\* items: {$ref: .../User}}}}, addXReturn sets x-return-types to ["User[]"]
\* and x-return-types-displayReturn to true.
C11_ArrayEnvelopeUnwrapped ==
    Annotated /\ IsArr(MembersOperation) /\ MembersSchema = ArrayEnvelope =>
        /\ Get(MembersOperation, K("x-return-types")) = List(<< Str(<<"User", "[]">>) >>)
        /\ Get(MembersOperation, K("x-return-types-displayReturn")) = Bool(TRUE)

\* C11, amended: for an operation whose success response has the
\* application/json schema {type: object, properties: {items: {$ref:
\* .../User}}}, addXReturn sets x-return-types to ["\Upsun\Model\User[]"] and
\* x-return-types-displayReturn to true; for the schema {type: object,
\* properties: {items: {type: array, items: {$ref: .../User}}}} it sets
\* x-return-types to ["object"] and x-return-types-displayReturn to false.
C11_ItemsReferenceUnwrapped ==
    Annotated /\ IsArr(MembersOperation) =>
        /\ MembersSchema = ReferenceEnvelope =>
               /\ Get(MembersOperation, K("x-return-types")) = List(<< UserArray >>)
               /\ Get(MembersOperation, K("x-return-types-displayReturn")) = Bool(TRUE)
        /\ MembersSchema = ArrayEnvelope =>
               /\ Get(MembersOperation, K("x-return-types")) = List(<< S("object") >>)
               /\ Get(MembersOperation, K("x-return-types-displayReturn")) = Bool(FALSE)

\* an operation whose `items` property is a reference has been annotated as
\* returning an array of the model
C11_Witness ==
    /\ Annotated
    /\ IsArr(MembersOperation)
    /\ MembersSchema = ReferenceEnvelope
    /\ Get(MembersOperation, K("x-return-types")) = List(<< UserArray >>)
    /\ Get(MembersOperation, K("x-returnable")) = Bool(TRUE)

---------------------------------------------------------------------------
SubscriptionIdPath ==
    SchemasPath \o <<K("Project"), K("properties"), K("subscription"), K("properties"), K("id")>>

\* the document the constructor loaded has the guarded field
Guarded == pc # "construct" /\ IssetPath(schema, SubscriptionIdPath)

\* C12: if the loaded document contains
\* Project.properties.subscription.properties.id, the run ends with the guard
\* error and a non-zero exit code, no pass after the guard check is executed,
\* and save is never executed (no output is written).
C12_GuardStopsRun ==
    Guarded =>
        /\ pc \in {"checkProjectSubscriptionId", "done"}
        /\ pc = "done" => exitCode = 1
        /\ output = NoFile

\* a run on a document with the guarded field has ended at the guard
C12_Witness ==
    /\ Guarded
    /\ input \in GuardDocuments
    /\ pc = "done"
    /\ exitCode = 1
    /\ output = NoFile

---------------------------------------------------------------------------
\* the input was parsed and the constructor accepted it
Parsed == input \notin {MissingFile, InvalidJson} /\ Truthy(fixAllRefsWithAllOf(Decoded))

\* C13: for every successfully parsed document in which the guarded field
\* Project.properties.subscription.properties.id is absent, no pass aborts the
\* run: an absent bucket (a missing route-variant schema, a missing Project
\* schema, a schema without a properties map) is skipped for that element
\* only, and the run reaches save (it ends with the status of a completed
\* run, or with the status save gives when the file cannot be written).
C13_NoPassAborts ==
    Parsed /\ ~IssetPath(fixAllRefsWithAllOf(Decoded), SubscriptionIdPath) /\ pc = "done" =>
        exitCode \in {0, 1}

---------------------------------------------------------------------------
\* C14: in every state of the run from the end of RefNormalizer up to and
\* including save, no node of the document has a `$ref` key together with a
\* sibling key: no later pass ever adds a key such as `nullable` to a
\* reference node.
C14_NoRefWithSiblingUntilSave ==
    pc # "construct" /\ IsArr(schema) => NoRefWithSibling(schema)

---------------------------------------------------------------------------
\* the success response of GET /members has a schema that is a reference to
\* a schema the document does not have
UnresolvedReturn ==
    /\ IsArr(MembersOperation)
    /\ MembersSchema = MissingRef
    /\ resolveRef(schema, Get(MissingRef, K("$ref"))) = Null

\* C15 as stated: during return-type inference, a success response whose
\* schema is a `$ref` that cannot be resolved inside the document contributes
\* the type "void" to x-return-types (and never a model name), and the run
\* does not fail.
C15_UnresolvedIsVoid ==
    UnresolvedReturn =>
        /\ Annotated => Get(MembersOperation, K("x-return-types")) = List(<< S("void") >>)
        /\ exitCode # 255

\* C15, amended: during return-type inference, a success response whose
\* schema is a `$ref` that cannot be resolved inside the document contributes
\* the model class named by the last segment of the reference to
\* x-return-types (never "void"), and the run does not fail.
C15_UnresolvedIsNamedModel ==
    UnresolvedReturn =>
        /\ pc \in {"wordwrapDescription", "addUniqueDiscriminatorModels", "save", "showReport"} =>
               /\ Get(MembersOperation, K("x-return-types")) = List(<< Str(<<ModelPrefix, "Missing">>) >>)
               /\ Get(MembersOperation, K("x-phpdoc")) = ReturnDoc(Str(<<ModelPrefix, "Missing">>))
        /\ exitCode \in {-1, 0, 1}
        /\ exitCode = 1 => output = NoFile /\ IsArr(Get(MembersOperation, K("x-return-types")))

\* a run on a document with such a response has been annotated and has ended
C15_Witness ==
    /\ UnresolvedReturn
    /\ pc = "done"
    /\ exitCode = 0
    /\ Get(MembersOperation, K("x-return-types")) = List(<< Str(<<ModelPrefix, "Missing">>) >>)

---------------------------------------------------------------------------
OrgAddonsPatchPath == OrgAddonsPath \o <<K("patch")>>

\* C16 as stated: each path-patch insertion is insert-if-absent: when the
\* target path or the target verb already exists in the document, the pass
\* leaves the whole document unchanged.
C16_InsertIfAbsent ==
    [][/\ pc = "addOrgAddonsPatch" /\ IssetPath(schema, OrgAddonsPath) => schema' = schema
       /\ pc = "addResourcePath" /\ IssetPath(schema, ResourcePath) => schema' = schema]_vars

\* C16, amended: addResourcePath is insert-if-absent: when its target path
\* already exists in the document, the pass leaves the whole document
\* unchanged.  addOrgAddonsPatch is not: when its target path already exists,
\* it sets the PATCH operation of the path to its own fragment, replacing a
\* PATCH operation of the source, and leaves the rest of the document (the
\* other verbs of the path included) unchanged.
C16_ResourceInsertedAddonsAssigned ==
    [][/\ pc = "addOrgAddonsPatch" /\ IssetPath(schema, OrgAddonsPath) =>
              /\ GetPath(schema', OrgAddonsPatchPath) = OrgAddonsPatchOperation
              /\ UnsetPath(schema', OrgAddonsPatchPath) = UnsetPath(schema, OrgAddonsPatchPath)
       /\ pc = "addResourcePath" /\ IssetPath(schema, ResourcePath) => schema' = schema]_vars

\* both passes have run on a document that had both paths with a PATCH
\* operation of its own: the one is replaced, the other kept
C16_Witness ==
    /\ pc = "fixNullableRequired"
    /\ IssetPath(input, OrgAddonsPatchPath)
    /\ IssetPath(input, ResourcePath \o <<K("patch")>>)
    /\ GetPath(schema, OrgAddonsPatchPath) = OrgAddonsPatchOperation
    /\ GetPath(schema, OrgAddonsPatchPath) # GetPath(input, OrgAddonsPatchPath)
    /\ GetPath(schema, ResourcePath \o <<K("patch"), K("operationId")>>) = S("source-patch")
    /\ ~IssetPath(schema, SchemasPath \o <<K("ResourceConfig")>>)

---------------------------------------------------------------------------
\* the definition of the property name in route type i
RouteProperty(doc, i, name) == Get(RouteProperties(doc, i), name)

---------------------------------------------------------------------------
\* the operation has success responses, and none of them has content
NoSuccessHasContent(operation) ==
    /\ SuccessResponses(operation) # <<>>
    /\ \A i \in DOMAIN SuccessResponses(operation) :
           ~Truthy(Get(SuccessResponses(operation)[i][2], K("content")))

\* C18: addXReturn rewrites "void" to "null" exactly when the operation's list
\* of distinct resolved return types contains "void" and at least one other
\* type: an operation all of whose success responses have no content (one,
\* two or more of them) keeps x-return-types = ["void"], and "null" never
\* appears as the only entry.
C18_VoidKeptWithoutOtherType ==
    Annotated =>
        \A operation \in OperationsOf(schema) :
            /\ Get(operation, K("x-return-types")) # List(<< S("null") >>)
            /\ NoSuccessHasContent(operation) =>
                   Get(operation, K("x-return-types")) = List(<< S("void") >>)

---------------------------------------------------------------------------
\* the properties of the requestBody application/json schema of an operation
RequestBodyProperties(operation) ==
    Ents(GetPath(operation, RequestSchemaPath \o <<K("properties")>>))

---------------------------------------------------------------------------
\* s has the sequence t in it
Contains(s, t) == \E i \in 1 .. Len(s) - Len(t) + 1 : SubSeq(s, i, i + Len(t) - 1) = t

\* two acronyms of the table share a letter in the name: MFA and API in
\* MFAPI, TLS and SSH in TLSSH
AcronymsOverlap(name) ==
    \/ Contains(name, <<"M", "F", "A", "P", "I">>)
    \/ Contains(name, <<"T", "L", "S", "S", "H">>)

\* C20 as stated: the canonical name is independent of the order in which the
\* five acronym substitutions are applied: for every input name, every
\* permutation of the substitutions gives the same result as toPascalCase.
C20_OrderIndependent ==
    pc = "returned" => pascal = toPascalCase(word)

\* C20, amended: for every input name in which no two acronyms of the table
\* overlap (a name that contains neither MFAPI nor TLSSH), every permutation
\* of the five substitutions gives the same result as toPascalCase.
C20_OrderIndependentWithoutOverlap ==
    pc = "returned" /\ ~AcronymsOverlap(word) => pascal = toPascalCase(word)

\* a name with two acronyms has been rewritten with the substitutions in an
\* order that is not the order of toPascalCase
C20_Witness ==
    /\ pc = "returned"
    /\ word = <<"V", "P", "N", "A", "P", "I">>
    /\ order[1] = 5
    /\ order[5] = 1
    /\ pascal = <<"V", "p", "n", "A", "p", "i">>
    /\ pascal = toPascalCase(word)

---------------------------------------------------------------------------
\* the names of the `required` list of route type i, in order
RequiredNames(doc, i) == [j \in DOMAIN RouteRequired(doc, i) |-> RouteRequired(doc, i)[j][2]]

\* the names of a list whose property definition in route type i does not
\* have nullable=true
WithoutNullable(doc, i, names) ==
    LET kept(name) == Get(RouteProperty(doc, i, name[2]), K("nullable")) # Bool(TRUE)
    IN  SelectSeq(names, kept)

\* the names of a list that have a property definition in route type i
WithDefinition(doc, i, names) ==
    LET kept(name) == Truthy(RouteProperty(doc, i, name[2]))
    IN  SelectSeq(names, kept)

\* C21 as stated: cleanRequiredProperties removes from a route variant's
\* `required` list exactly the names whose property definition has
\* nullable=true: every other name, including a name that has no property
\* definition in the variant, is kept, and the kept names stay in their
\* original relative order.
C21_ExactlyNullableRemoved ==
    [][pc = "cleanRequiredProperties" =>
          \A i \in PresentRoutes(schema) :
              RequiredNames(schema', i) = WithoutNullable(schema, i, RequiredNames(schema, i))]_vars

\* C21, amended: cleanRequiredProperties removes from a route variant's
\* `required` list exactly the names whose property definition has
\* nullable=true and the names that have no property definition (or an empty
\* one) in the variant: every other name is kept, and the kept names stay in
\* their original relative order.
C21_NullableAndUndefinedRemoved ==
    [][pc = "cleanRequiredProperties" =>
          \A i \in PresentRoutes(schema) :
              /\ RequiredNames(schema', i) =
                     WithDefinition(schema, i, WithoutNullable(schema, i, RequiredNames(schema, i)))
              /\ IsList(GetPath(schema', RoutePath(routeTypes[i]) \o <<K("required")>>))]_vars

\* a variant that required `to` and a name without a definition now requires
\* `to` only, and a variant that required a nullable `id` before `to` and
\* `upstream` now requires these two, in this order
C21_Witness ==
    /\ pc = "addOrgAddonsPatch"
    /\ \E i \in PresentRoutes(input) :
           /\ RequiredNames(input, i) = << S("to"), S("ghost") >>
           /\ RequiredNames(schema, i) = << S("to") >>
    /\ \E i \in PresentRoutes(input) :
           /\ RequiredNames(input, i) = << S("id"), S("to"), S("upstream") >>
           /\ RequiredNames(schema, i) = << S("to"), S("upstream") >>

---------------------------------------------------------------------------
\* every node of a tree that has a non-empty description has an x-description
RECURSIVE Described(_)
Described(n) ==
    \/ ~IsArr(n)
    \/ /\ Truthy(Get(n, K("description"))) => IsArr(Get(n, K("x-description")))
       /\ \A j \in DOMAIN Ents(n) : Described(Ents(n)[j][2])

\* C22: after wordwrapDescription, every node under components.schemas that
\* has a non-empty `description` has an `x-description` line array, wherever
\* it sits: at schema level, in a property, in a nested object property, in an
\* array property's `items`, and in an allOf/anyOf/oneOf member at any depth
\* (including a property that RefNormalizer turned into an allOf of a
\* reference and its description).
C22_EveryDescriptionWrapped ==
    pc = "addUniqueDiscriminatorModels" => Described(GetPath(schema, SchemasPath))

---------------------------------------------------------------------------
\* the schema that the reference of the success response of GET /members
\* names
MembersTarget == GetPath(schema, SchemasPath \o <<LastSegment(Get(MembersSchema, K("$ref"))[2])>>)

\* C23: in addXReturn, when a success response's schema is a `$ref`: if the
\* target resolves to a schema of type array whose items are a reference to
\* model M, the resolved return type is the array form of M (it ends in "[]"
\* and x-return-types-displayReturn becomes true); if the target resolves to
\* any other schema, the resolved return type is the model named by the last
\* path segment of the reference, without "[]".
C23_ReferenceToArrayUnwrapped ==
    Annotated /\ IsArr(MembersOperation) /\ Isset(MembersSchema, K("$ref")) /\ Truthy(MembersTarget) =>
        IF Get(MembersTarget, K("type")) = S("array")
           /\ IsStr(GetPath(MembersTarget, <<K("items"), K("$ref")>>))
        THEN /\ Get(MembersOperation, K("x-return-types")) =
                    List(<< Str(ModelClass(GetPath(MembersTarget, <<K("items"), K("$ref")>>)) \o <<"[]">>) >>)
             /\ Get(MembersOperation, K("x-return-types-displayReturn")) = Bool(TRUE)
        ELSE /\ Get(MembersOperation, K("x-return-types")) =
                    List(<< Str(ModelClass(Get(MembersSchema, K("$ref")))) >>)
             /\ Get(MembersOperation, K("x-return-types-displayReturn")) = Bool(FALSE)

\* a reference to an array of User references has been annotated as an array
\* of the User model
C23_Witness ==
    /\ Annotated
    /\ IsArr(MembersOperation)
    /\ MembersSchema = RefTo(<<"Users">>)
    /\ MembersTarget = ArrayOf(RefTo(<<"User">>))
    /\ Get(MembersOperation, K("x-return-types")) = List(<< UserArray >>)
    /\ Get(MembersOperation, K("x-return-types-displayReturn")) = Bool(TRUE)

---------------------------------------------------------------------------
\* the place of a call in an order of calls
Position(calls, name) == CHOOSE i \in DOMAIN calls : calls[i] = name

\* the stage of each call in the stated order, the path patches being one
\* stage and the two renames of keys another
StatedStage ==
    [construct |-> 1, checkProjectSubscriptionId |-> 2,
     normalizeSchemaNamesToPascalCase |-> 3, fixTagsToPascalCase |-> 4,
     makePropertiesNullable |-> 5, markDateTimeProperties |-> 6,
     cleanRequiredProperties |-> 7,
     addOrgAddonsPatch |-> 8, addResourcePath |-> 8, removeProjectDeletePath |-> 8,
     fixEmptyParameters |-> 9, replaceEmptyRefResponsesWithAccepted |-> 10,
     fixNullableRequired |-> 11, renameXInternal |-> 12, renameDeprecated |-> 12,
     addXReturn |-> 13, wordwrapDescription |-> 14, addUniqueDiscriminatorModels |-> 15,
     save |-> 16, showReport |-> 17, done |-> 18]

\* the calls of the main script, in its order
MainOrder ==
    << "construct", "checkProjectSubscriptionId", "normalizeSchemaNamesToPascalCase",
       "fixTagsToPascalCase", "makePropertiesNullable", "markDateTimeProperties",
       "cleanRequiredProperties", "addOrgAddonsPatch", "removeProjectDeletePath",
       "fixEmptyParameters", "replaceEmptyRefResponsesWithAccepted", "addResourcePath",
       "fixNullableRequired", "renameXInternal", "renameDeprecated", "addXReturn",
       "wordwrapDescription", "addUniqueDiscriminatorModels", "save", "showReport", "done" >>

\* C24 as stated: in one invocation the driver runs every pass once and in
\* the fixed order: RefNormalizer at load, guard check, rename schemas, rename
\* tags, nullability, datetime flagging, required cleanup, all path patches
\* (insertions and removal), empty-parameter cleanup, empty-response
\* replacement, nullable/required fix, internal/deprecated renames,
\* return-type annotation, description formatting, discriminator dedup,
\* save, report; in particular every path-patch insertion has completed
\* before empty-parameter cleanup and empty-response replacement start.
C24_PatchesBeforeCleanup ==
    [][/\ StatedStage[pc] <= StatedStage[pc']
       /\ pc' \in {"fixEmptyParameters", "replaceEmptyRefResponsesWithAccepted"} =>
              /\ IssetPath(schema', OrgAddonsPatchPath)
              /\ IssetPath(schema', ResourcePath)]_vars

\* C24, amended: the driver runs the passes one after the other in the order
\* of the main script, each once, up to the end or to the exception that ends
\* the run: RefNormalizer at load, guard check, rename schemas, rename tags,
\* nullability, datetime flagging, required cleanup, add-ons path insertion,
\* project-delete removal, empty-parameter cleanup, empty-response
\* replacement, resource path insertion, nullable/required fix, internal
\* rename, deprecated rename, return-type annotation, description
\* formatting, discriminator dedup, save, report; the add-ons insertion and
\* the removal have completed before empty-parameter cleanup starts, and the
\* resource path insertion starts after empty-response replacement.
C24_MainOrder ==
    [][/\ \/ Position(MainOrder, pc') = Position(MainOrder, pc) + 1
          \/ pc' = "done" /\ exitCode' \in {1, 255}
       /\ pc' \in {"fixEmptyParameters", "replaceEmptyRefResponsesWithAccepted"} =>
              /\ IssetPath(schema', OrgAddonsPatchPath)
              /\ ~IssetPath(schema', ProjectDeletePath)
       /\ pc' \in {"fixEmptyParameters", "replaceEmptyRefResponsesWithAccepted", "addResourcePath"} =>
              IssetPath(schema', ResourcePath) = IssetPath(input, ResourcePath)
       /\ pc' = "fixNullableRequired" => IssetPath(schema', ResourcePath)]_vars

\* the add-ons path is inserted, the project-delete operation removed and the
\* empty parameter list of GET /projects/{projectId} dropped, and the resource
\* path is still to be inserted
C24_Witness ==
    /\ pc = "addResourcePath"
    /\ ~IssetPath(input, OrgAddonsPath) /\ IssetPath(schema, OrgAddonsPatchPath)
    /\ IssetPath(input, ProjectDeletePath) /\ ~IssetPath(schema, ProjectDeletePath)
    /\ GetPath(input, <<K("paths"), K("/projects/{projectId}"), K("get"), K("parameters")>>) = EmptyArr
    /\ ~IssetPath(schema, <<K("paths"), K("/projects/{projectId}"), K("get"), K("parameters")>>)
    /\ ~IssetPath(schema, ResourcePath)

---------------------------------------------------------------------------
\* the places of the responses of the document: paths.<path>.<method>.responses.<code>
ResponsePlaces(doc) ==
    LET keys(n) == { Ents(n)[i][1] : i \in DOMAIN Ents(n) }
        paths == Get(doc, K("paths"))
    IN  UNION { UNION { { <<K("paths"), p, m, K("responses"), code>> :
                            code \in keys(GetPath(paths, <<p, m, K("responses")>>)) } :
                        m \in keys(Get(paths, p)) } :
                p \in keys(paths) }

\* the application/json schema of a response is a reference to a schema that
\* is absent from components.schemas or has no properties, allOf, anyOf or
\* oneOf
RefersToEmptySchema(doc, response) ==
    LET ref == GetPath(response, JsonSchemaPath \o <<K("$ref")>>)
        target == GetPath(doc, SchemasPath \o <<LastSegment(ref[2])>>)
    IN  /\ IsStr(ref)
        /\ \A key \in {K("properties"), K("allOf"), K("anyOf"), K("oneOf")} :
               ~Truthy(Get(target, key))

\* C25: after replaceEmptyRefResponsesWithAccepted, every response in the
\* document whose application/json schema was a `$ref` to a schema that is
\* absent from components.schemas, or that has no properties, allOf, anyOf or
\* oneOf, has that schema replaced in the document by
\* {$ref: #/components/schemas/AcceptedResponse}.
C25_EmptyRefResponsesReplaced ==
    [][pc = "replaceEmptyRefResponsesWithAccepted" =>
          \A place \in ResponsePlaces(schema) :
              RefersToEmptySchema(schema, GetPath(schema, place)) =>
                  GetPath(schema', place \o JsonSchemaPath) = AcceptedRef]_vars

---------------------------------------------------------------------------
\* the properties of the schemas of components.schemas
SchemaProperties(doc) ==
    LET values(n) == { Ents(n)[i][2] : i \in DOMAIN Ents(n) }
    IN  UNION { values(Get(sc, K("properties"))) : sc \in values(GetPath(doc, SchemasPath)) }

\* C26: after fixNullableRequired, no property of any schema in
\* components.schemas that has nullable=true still carries a `required` key
\* in the document.
C26_NoRequiredOnNullableProperty ==
    pc = "renameXInternal" =>
        \A prop \in SchemaProperties(schema) :
            Get(prop, K("nullable")) = Bool(TRUE) => ~Has(prop, K("required"))

---------------------------------------------------------------------------
\* C27: normalizeSchemaNamesToPascalCase never loses a schema:
\* components.schemas has the same number of entries before and after the
\* pass, distinct original names end up under distinct keys (also when two
\* names such as `APIToken` and `ApiToken` canonicalize to the same name), and
\* each definition is found under the canonical name of its original key, in
\* the original key order.
C27_NoSchemaLost ==
    [][pc = "normalizeSchemaNamesToPascalCase" /\ IssetPath(schema, SchemasPath) =>
          LET old == Ents(GetPath(schema, SchemasPath))
              new == Ents(GetPath(schema', SchemasPath))
          IN  /\ Len(new) = Len(old)
              /\ \A i, j \in DOMAIN new : i # j => new[i][1] # new[j][1]
              /\ \A i \in DOMAIN old :
                     /\ i \in DOMAIN new
                     /\ new[i][1] = toPascalCase(old[i][1])
                     /\ Get(new[i][2], K("title")) = Get(old[i][2], K("title"))]_vars

---------------------------------------------------------------------------
\* the strings of a tree that refer to a schema: the values of the `$ref`
\* keys and the values of the discriminator mappings
RECURSIVE SchemaReferences(_)
SchemaReferences(n) ==
    UNION { LET e == Ents(n)[i]
            IN  IF e[1] = K("$ref") /\ IsStr(e[2]) THEN {e[2]}
                ELSE IF e[1] = K("mapping")
                     THEN { Ents(e[2])[j][2] : j \in DOMAIN Ents(e[2]) }
                     ELSE SchemaReferences(e[2]) :
            i \in DOMAIN Ents(n) }

\* a string names a schema of the document
NamesSchema(doc, name) == IssetPath(doc, SchemasPath \o <<name>>)

\* the references of the document that name no schema of it
Dangling(doc) ==
    { ref \in SchemaReferences(doc) : ~NamesSchema(doc, LastSegment(ref[2])) }

\* the names listed in x-uniqueDiscriminatorModels of the schemas
DiscriminatorModels(doc) ==
    LET schemas == Ents(GetPath(doc, SchemasPath))
        listed(sc) == Ents(Get(sc, K("x-uniqueDiscriminatorModels")))
    IN  UNION { { listed(schemas[i][2])[j][2][2] : j \in DOMAIN listed(schemas[i][2]) } :
                i \in DOMAIN schemas }

\* C28: renaming keeps the reference graph intact: every string of the form
\* `#/components/schemas/<N>` that named an existing schema before
\* normalizeSchemaNamesToPascalCase, whether it is the value of a `$ref` key
\* or a value of a discriminator `mapping`, names an existing schema after
\* the pass, so every name later listed in x-uniqueDiscriminatorModels is a
\* key of components.schemas.
C28_ReferencesKeptIntact ==
    /\ [][pc = "normalizeSchemaNamesToPascalCase" /\ Dangling(schema) = {} =>
              Dangling(schema') = {}]_vars
    /\ [](pc \in {"save", "showReport"} /\ IsArr(input) /\ Dangling(input) = {} =>
              \A name \in DiscriminatorModels(schema) : NamesSchema(schema, name))

---------------------------------------------------------------------------
\* C29: the guard check is read-only: whenever checkProjectSubscriptionId
\* returns without raising, the document is exactly as it was before the
\* check; in particular no `Project` entry (and no `components` or `schemas`
\* bucket) is created when the document has none.
C29_GuardReadOnly ==
    [][pc = "checkProjectSubscriptionId" /\ pc' = "normalizeSchemaNamesToPascalCase" =>
          schema' = schema]_vars

---------------------------------------------------------------------------
\* the keys of the list-valued fields the statement names
ListFields == {K("required"), K("x-return-types"), K("tags")}

RECURSIVE EmptyListsEncoded(_, _, _)
\* every empty array of data under a key of ListFields is written as []
EmptyListsEncoded(data, json, last) ==
    IF ~IsArr(data) THEN TRUE
    ELSE IF Ents(data) = <<>>
         THEN last \in ListFields => json = <<"list", <<>>>>
         ELSE /\ json[1] \in {"list", "object"}
              /\ Len(json[2]) = Count(data)
              /\ \A i \in DOMAIN Ents(data) :
                     EmptyListsEncoded(Ents(data)[i][2], JsonChild(json, i), Ents(data)[i][1])

\* C30: the Serializer changes only empty mappings: an empty list-valued
\* field of the in-memory document, such as a route variant's `required` list
\* from which RequiredCleaner removed every name, or an operation's
\* `x-return-types` or `tags` with no entry, is encoded as the JSON array `[]`
\* and not as the object `{}`.
C30_EmptyListsStayLists == Saved => EmptyListsEncoded(schema, output, <<>>)

====
